---- MODULE Spec2Model ----
(***************************************************************************)
(* Model of the loop profiling runtime (per-call-site engine,              *)
(* src/unnamed/part_001): hardware counter snapshots, the per-call-site    *)
(* snapshot stacks, the MPKI computation and aggregation, and the output   *)
(* written by the destructor.                                              *)
(*                                                                         *)
(* Number representations                                                  *)
(*   uint64_t : a tuple of four 16-bit limbs, least significant first, so  *)
(*              that subtraction and addition wrap modulo 2^64 exactly.    *)
(*   double   : IEEE 754 binary64 with its rounding, restricted to the    *)
(*              non-negative values: the engine never computes a negative  *)
(*              one.  See "double arithmetic" below.                       *)
(*   bytes of a prof_data_t that was never written (malloc'ed, not        *)
(*              assigned): any 16 bytes; the model keeps their class (see  *)
(*              Garbage), not the bytes.                                   *)
(***************************************************************************)
EXTENDS Integers, Sequences, FiniteSets, TLC

VARIABLES pc, perf_state, perf_counter, loop_data_table, out_file, panic_msg,
          hist, calls, calc_data, calc_out, calc_hist,
          syscalls, tokens,
          pc_v1, perf_data_stack, loop_profs, out_file_v1, panic_msg_v1,
          PROFILE_OUTPUT, program_invocation_short_name, output_file_name

\* The state of a process linked with the single-stack library
\* (src/libprof.c).
vars_v1 == <<pc_v1, perf_data_stack, loop_profs, out_file_v1, panic_msg_v1>>

\* What open_output_file reads (the environment variable and the name of
\* the program) and the path it passes to open().
vars_open == <<PROFILE_OUTPUT, program_invocation_short_name, output_file_name>>

vars == <<pc, perf_state, perf_counter, loop_data_table, out_file, panic_msg,
          hist, calls, calc_data, calc_out, calc_hist, syscalls, tokens,
          vars_v1, vars_open>>

(***************************************************************************)
(* Bounds of the model.                                                    *)
(***************************************************************************)
\* Total number of calls into the library in one run of the instrumented
\* program: entries, exits and the destructor.
MaxCalls == 4

\* Call-site return addresses of the instrumented program.
Addrs == {"A", "B"}

\* Counter increments <<instructions, read misses, write misses>> that may
\* accumulate between two consecutive reads of the counter group.
Steps == { <<0, 5, 0>>, <<1000, 10, 10>> }

(***************************************************************************)
(* uint64_t arithmetic.                                                    *)
(***************************************************************************)
LEN_PERF_EVENTS == 3

Limb == 2 ^ 16

\* The uint64_t holding the small natural n (n < 2^31).
U64(n) == << n % Limb, (n \div Limb) % Limb, 0, 0 >>

\* a + b modulo 2^64.
Add64(a, b) ==
  LET s1 == a[1] + b[1]
      s2 == a[2] + b[2] + (s1 \div Limb)
      s3 == a[3] + b[3] + (s2 \div Limb)
      s4 == a[4] + b[4] + (s3 \div Limb)
  IN  << s1 % Limb, s2 % Limb, s3 % Limb, s4 % Limb >>

\* A mutant of Sub64: saturating subtraction (0 when a < b) instead of
\* wrapping.
Sub64_saturating(a, b) ==
  LET d1 == a[1] - b[1]
      w1 == IF d1 < 0 THEN 1 ELSE 0
      d2 == a[2] - b[2] - w1
      w2 == IF d2 < 0 THEN 1 ELSE 0
      d3 == a[3] - b[3] - w2
      w3 == IF d3 < 0 THEN 1 ELSE 0
      d4 == a[4] - b[4] - w3
  IN  IF d4 < 0 THEN << 0, 0, 0, 0 >>
      ELSE << d1 % Limb, d2 % Limb, d3 % Limb, d4 % Limb >>

\* a - b modulo 2^64 (the C subtraction of two uint64_t).
Sub64(a, b) ==
  LET d1 == a[1] - b[1]
      w1 == IF d1 < 0 THEN 1 ELSE 0
      d2 == a[2] - b[2] - w1
      w2 == IF d2 < 0 THEN 1 ELSE 0
      d3 == a[3] - b[3] - w2
      w3 == IF d3 < 0 THEN 1 ELSE 0
      d4 == a[4] - b[4] - w3
  IN  << d1 % Limb, d2 % Limb, d3 % Limb, d4 % Limb >>

\* The natural number a uint64_t holds (only evaluated below 2^31).
U64Value(w) == w[1] + Limb * (w[2] + Limb * (w[3] + Limb * w[4]))

(***************************************************************************)
(* Natural numbers of any size, for the significands of doubles: a         *)
(* sequence of limbs base 2^16, least significant first, whose last limb   *)
(* is not zero; << >> is 0.                                                *)
(***************************************************************************)
LimbBits == 16

\* s without its most significant zero limbs.
RECURSIVE BTrim(_)
BTrim(s) ==
  IF Len(s) = 0 THEN << >>
  ELSE IF s[Len(s)] = 0 THEN BTrim(SubSeq(s, 1, Len(s) - 1))
  ELSE s

\* Number of bits of the small natural n.
RECURSIVE IntBits(_)
IntBits(n) == IF n = 0 THEN 0 ELSE 1 + IntBits(n \div 2)

\* Number of bits of s (0 for 0).
BBits(s) ==
  IF Len(s) = 0 THEN 0 ELSE LimbBits * (Len(s) - 1) + IntBits(s[Len(s)])

\* Bit i of s, bit 0 being the least significant.
BBit(s, i) ==
  IF i \div LimbBits >= Len(s) THEN 0
  ELSE (s[i \div LimbBits + 1] \div 2 ^ (i % LimbBits)) % 2

\* The k least significant bits of s are zero.
BLowZero(s, k) ==
  \A j \in 1..Len(s) :
     IF LimbBits * j <= k THEN s[j] = 0
     ELSE IF LimbBits * (j - 1) < k
          THEN s[j] % 2 ^ (k - LimbBits * (j - 1)) = 0
          ELSE TRUE

\* Limbs i, i + 1, ... of s * m + carry * Limb^(i - 1), for m <= 2^15 and
\* carry < m.
RECURSIVE BMulSmallFrom(_, _, _, _)
BMulSmallFrom(s, m, i, carry) ==
  IF i > Len(s) THEN (IF carry = 0 THEN << >> ELSE << carry >>)
  ELSE LET t == s[i] * m + carry
       IN  << t % Limb >> \o BMulSmallFrom(s, m, i + 1, t \div Limb)

\* z zero limbs.
RECURSIVE Zeros(_)
Zeros(z) == IF z = 0 THEN << >> ELSE << 0 >> \o Zeros(z - 1)

\* s * 2^k
BShl(s, k) ==
  IF Len(s) = 0 THEN << >>
  ELSE Zeros(k \div LimbBits) \o BMulSmallFrom(s, 2 ^ (k % LimbBits), 1, 0)

\* 2 * s + bit
BDouble(s, bit) == BMulSmallFrom(s, 2, 1, bit)

\* Quotient and remainder of (r * Limb^i + the limbs 1..i of s) by the
\* small natural d, d <= 2^15 and r < d: schoolbook short division.
RECURSIVE BDivSmallFrom(_, _, _, _)
BDivSmallFrom(s, d, i, r) ==
  IF i = 0 THEN [q |-> << >>, r |-> r]
  ELSE LET t    == r * Limb + s[i]
           rest == BDivSmallFrom(s, d, i - 1, t % d)
       IN  [q |-> Append(rest.q, t \div d), r |-> rest.r]

\* s \div 2^k
BShr(s, k) ==
  LET z == k \div LimbBits
      n == Len(s)
  IN  IF z >= n THEN << >>
      ELSE BTrim(BDivSmallFrom(SubSeq(s, z + 1, n), 2 ^ (k % LimbBits),
                               n - z, 0).q)

\* Limbs i, i + 1, ... of a + b + carry * Limb^(i - 1).
RECURSIVE BAddFrom(_, _, _, _)
BAddFrom(a, b, i, carry) ==
  IF i > Len(a) /\ i > Len(b)
  THEN (IF carry = 0 THEN << >> ELSE << carry >>)
  ELSE LET t == (IF i <= Len(a) THEN a[i] ELSE 0)
                + (IF i <= Len(b) THEN b[i] ELSE 0) + carry
       IN  << t % Limb >> \o BAddFrom(a, b, i + 1, t \div Limb)

\* a + b
BAdd(a, b) == BAddFrom(a, b, 1, 0)

\* Limbs i, i + 1, ... of a - b - borrow * Limb^(i - 1), for a >= b.
RECURSIVE BSubFrom(_, _, _, _)
BSubFrom(a, b, i, borrow) ==
  IF i > Len(a) THEN << >>
  ELSE LET t == a[i] - (IF i <= Len(b) THEN b[i] ELSE 0) - borrow
       IN  << t % Limb >> \o BSubFrom(a, b, i + 1, IF t < 0 THEN 1 ELSE 0)

\* a - b, for a >= b
BSub(a, b) == BTrim(BSubFrom(a, b, 1, 0))

\* a < b decided on the limbs 1..i, the limbs above being equal.
RECURSIVE BLessFrom(_, _, _)
BLessFrom(a, b, i) ==
  IF i = 0 THEN FALSE
  ELSE IF a[i] # b[i] THEN a[i] < b[i]
  ELSE BLessFrom(a, b, i - 1)

\* a < b
BLess(a, b) ==
  IF Len(a) # Len(b) THEN Len(a) < Len(b) ELSE BLessFrom(a, b, Len(a))

\* One step of the binary long division by b: st.q is the quotient and
\* st.r the remainder (st.r < b) of the bits brought down so far, bit is
\* the next one.
BDivBit(st, bit, b) ==
  LET t == BDouble(st.r, bit)
  IN  IF BLess(t, b) THEN [q |-> 2 * st.q, r |-> t]
      ELSE [q |-> 2 * st.q + 1, r |-> BSub(t, b)]

\* The bits hi, hi - 1, ..., lo of limb brought down by binary long
\* division by b, after the bits whose quotient and remainder are st: the
\* upper half of them, then the lower half, which only shifts the quotient
\* when the remainder is 0 and nothing but zero bits are left.
RECURSIVE BDivStep(_, _, _, _, _)
BDivStep(st, limb, b, hi, lo) ==
  IF hi = lo THEN BDivBit(st, (limb \div 2 ^ lo) % 2, b)
  ELSE LET mid   == (hi + lo + 1) \div 2
           upper == BDivStep(st, limb, b, hi, mid)
       IN  IF Len(upper.r) = 0 /\ limb % 2 ^ mid = 0
           THEN [q |-> upper.q * 2 ^ (mid - lo), r |-> << >>]
           ELSE BDivStep(upper, limb, b, mid - 1, lo)

\* The limb step.q put below the limbs q of a quotient.
BDivPush(step, q) == [q |-> << step.q >> \o q, r |-> step.r]

\* One limb of the long division: prev is the quotient and the remainder of
\* the limbs above limb by b, the result those of the limbs down to limb.
BDivLimb(prev, limb, b) ==
  IF Len(prev.r) = 0 /\ limb = 0
  THEN [q |-> << 0 >> \o prev.q, r |-> << >>]
  ELSE BDivPush(BDivStep([q |-> 0, r |-> prev.r], limb, b, LimbBits - 1, 0),
                prev.q)

\* Quotient and remainder of (the limbs i + 1, i + 2, ... of a) by b: long
\* division, one limb of the quotient at a time; the quotient is 0 while
\* fewer limbs than b has are taken.
RECURSIVE BDivLimbs(_, _, _)
BDivLimbs(a, b, i) ==
  IF i >= Len(a) - Len(b) + 1
  THEN [q |-> << >>, r |-> BTrim(SubSeq(a, i + 1, Len(a)))]
  ELSE BDivLimb(BDivLimbs(a, b, i + 1), a[i + 1], b)

\* The quotient res.q without its most significant zero limbs.
BDivTrim(res) == [q |-> BTrim(res.q), r |-> res.r]

\* [q |-> a \div b, r |-> a % b] for b # 0.
BDivRem(a, b) ==
  IF Len(b) = 1 /\ b[1] <= Limb \div 2
  THEN LET res == BDivSmallFrom(a, b[1], Len(a), 0)
       IN  [q |-> BTrim(res.q), r |-> BTrim(<< res.r >>)]
  ELSE BDivTrim(BDivLimbs(a, b, 0))

\* Number of least significant zero bits of the small natural n, n # 0.
RECURSIVE IntTrailingZeros(_)
IntTrailingZeros(n) ==
  IF n % 2 = 1 THEN 0 ELSE 1 + IntTrailingZeros(n \div 2)

\* Number of least significant zero bits of s from limb i on, s # 0.
RECURSIVE BTrailingZeros(_, _)
BTrailingZeros(s, i) ==
  IF s[i] = 0 THEN LimbBits + BTrailingZeros(s, i + 1)
  ELSE IntTrailingZeros(s[i])

(***************************************************************************)
(* double arithmetic on non-negative values (IEEE 754 binary64, rounding   *)
(* to nearest, ties to even, as the C double of x86-64 and AArch64).  A    *)
(* finite double is << "fin", m, e >>, the value m * 2^e with m odd, or    *)
(* m = << >> and e = 0 for +0.0, so that equal values are equal tuples.    *)
(***************************************************************************)
\* Bits of the significand (DBL_MANT_DIG), exponent of the smallest
\* subnormal, and exponent of the first power of two that overflows
\* (DBL_MAX_EXP).
MantBits == 53
MinExp == 0 - 1074
MaxExp == 1024

Inf == << "inf", << >>, 0 >>
NaN == << "nan", << >>, 0 >>

IsNaN(x) == x[1] = "nan"
IsInf(x) == x[1] = "inf"
IsFinite(x) == x[1] = "fin"

\* The finite double of value m * 2^e, for m of at most 53 bits.
Fin(m, e) ==
  IF Len(m) = 0 THEN << "fin", << >>, 0 >>
  ELSE LET z == BTrailingZeros(m, 1) IN << "fin", BShr(m, z), e + z >>

\* The double of value m * 2^e, for m of at most 53 bits and e >= MinExp:
\* a value of 2^MaxExp or more is +infinity.
Pack(m, e) == IF BBits(m) + e > MaxExp THEN Inf ELSE Fin(m, e)

\* q, or the next natural number when up.
Nudged(q, up) == IF up THEN BAdd(q, << 1 >>) ELSE q

\* The double nearest to (q + f) * 2^e, ties to even, for the fraction f
\* that is 1/2 or more when half, and is neither 0 nor 1/2 when rest: the
\* fraction is rounded up when it is above 1/2, or is 1/2 and q is odd.
RoundOff(q, half, rest, e) ==
  Pack(Nudged(q, half /\ (rest \/ BBit(q, 0) = 1)), e)

\* Round(n, sticky, e) when the s least significant bits of n are those
\* that do not fit.
RoundAt(n, sticky, e, s) ==
  IF s <= 0 THEN Pack(n, e)
  ELSE RoundOff(BShr(n, s), BBit(n, s - 1) = 1,
                sticky = 1 \/ ~BLowZero(n, s - 1), e + s)

\* The larger of the integers a and b.
Max(a, b) == IF a > b THEN a ELSE b

\* The double nearest to (n + f) * 2^e, ties to even, where f = 0 when
\* sticky = 0 and 0 < f < 1 when sticky = 1 (then n has at least
\* MantBits + 2 bits): the low bits of n that do not fit the significand,
\* or that lie below the smallest subnormal, are rounded off; a result of
\* 2^MaxExp or more is +infinity.
Round(n, sticky, e) ==
  RoundAt(n, sticky, e, Max(BBits(n) - MantBits, MinExp - e))

\* +0.0
Zero == << "fin", << >>, 0 >>

\* The double of the small natural n.
D(n) == Round(BTrim(<< n % Limb, n \div Limb >>), 0, 0)

\* hi + lo for finite nonzero doubles, the exponent of hi not below that
\* of lo: the exact sum of the aligned significands, rounded; when lo is
\* below a quarter of the last bit that hi can hold, it only says that the
\* sum is not hi itself.
AddAligned(hi, lo) ==
  LET far == hi[3] - lo[3] >= BBits(lo[2]) + MantBits + 2
  IN  Round(IF far THEN BShl(hi[2], MantBits + 2)
                   ELSE BAdd(BShl(hi[2], hi[3] - lo[3]), lo[2]),
            IF far THEN 1 ELSE 0,
            IF far THEN hi[3] - MantBits - 2 ELSE lo[3])

\* x + y
DAdd(x, y) ==
  IF IsNaN(x) \/ IsNaN(y) THEN NaN
  ELSE IF IsInf(x) \/ IsInf(y) THEN Inf
  ELSE IF Len(x[2]) = 0 THEN y
  ELSE IF Len(y[2]) = 0 THEN x
  ELSE AddAligned(IF x[3] >= y[3] THEN x ELSE y,
                  IF x[3] >= y[3] THEN y ELSE x)

\* The double nearest to (res.q + f) * 2^e, where f = 0 when the remainder
\* res.r of the division is 0, and 0 < f < 1 otherwise.
RoundQuotient(res, e) == Round(res.q, IF Len(res.r) = 0 THEN 0 ELSE 1, e)

\* x / y for finite nonzero doubles, the significand of x shifted by k
\* bits before it is divided.
DivShifted(x, y, k) ==
  RoundQuotient(BDivRem(BShl(x[2], k), y[2]), x[3] - k - y[3])

\* x / y: the quotient of the significands is computed to MantBits + 2 bits
\* or one more, with a sticky bit for a remainder, and rounded.
DDiv(x, y) ==
  IF IsNaN(x) \/ IsNaN(y) THEN NaN
  ELSE IF IsInf(x) THEN (IF IsInf(y) THEN NaN ELSE Inf)
  ELSE IF IsInf(y) THEN Zero
  ELSE IF Len(y[2]) = 0 THEN (IF Len(x[2]) = 0 THEN NaN ELSE Inf)
  ELSE IF Len(x[2]) = 0 THEN Zero
  ELSE DivShifted(x, y, BBits(y[2]) + MantBits + 2 - BBits(x[2]))

\* (double) of a uint64_t
ToDouble(w) == Round(BTrim(w), 0, 0)

(***************************************************************************)
(* Performance data and profiling data.                                    *)
(***************************************************************************)
\* Content of memory that was allocated but never written.
UninitWord == << -1, -1, -1, -1 >>
UninitPerfData == [i \in 1..LEN_PERF_EVENTS |-> UninitWord]
UninitDouble == << -1, -1 >>
UninitProfData == [read_mpki |-> UninitDouble, write_mpki |-> UninitDouble]

\* What a read of a never-written prof_data_t yields.  Any 16 bytes can be
\* in memory that malloc returned and nobody assigned (zeroes of a fresh
\* heap, bytes of a chunk freed earlier, the fill byte of MALLOC_PERTURB_),
\* so the model does not keep the bytes: it keeps to which of two classes
\* they belong.  The two classes cover all 2^128 values: in "mpki_like"
\* both doubles are +0.0 or positive and finite, as the MPKI of an interval
\* with instructions are; "other" is everything else (a sign bit set, an
\* infinity or a NaN in either double).
ProfDataClasses == { "mpki_like", "other" }

\* The double whose bits are the 64-bit word w is +0.0 or positive and
\* finite (limb 4 holds the sign bit and the 11 bits of the exponent).
NonNegFinite(w) == w[4] < 32768 /\ w[4] \div 16 # 2047

\* The class of the never-written prof_data_t whose two doubles have the
\* bits r and w.
ClassOfBits(r, w) ==
  IF NonNegFinite(r) /\ NonNegFinite(w) THEN "mpki_like" ELSE "other"

\* The never-written prof_data_t of class c, as it stands in a record of
\* the output file: each field says of which prof_data_t it is a part.
Junk(c) ==
  [read_mpki  |-> << [class |-> c, field |-> "read_mpki"] >>,
   write_mpki |-> << [class |-> c, field |-> "write_mpki"] >>]

\* What the 16 bytes of a never-written prof_data_t may be.
Garbage == { Junk(c) : c \in ProfDataClasses }

\* What read() of the counter group stores in a read_format_t.
ReadFormat(counter) == [nr |-> LEN_PERF_EVENTS, values |-> counter]

\* fill_perf_data: copies the counter values of a read_format_t.
fill_perf_data(rf) == [i \in 1..LEN_PERF_EVENTS |-> rf.values[i]]

\* fill_prof_data: MPKI of the interval between two performance data.
fill_prof_data(last, cur) ==
  LET num_insts    == Sub64(cur[1], last[1])
      read_misses  == Sub64(cur[2], last[2])
      write_misses == Sub64(cur[3], last[3])
      kilo_insts   == DDiv(ToDouble(num_insts), D(1000))
  IN  [read_mpki  |-> DDiv(ToDouble(read_misses), kilo_insts),
       write_mpki |-> DDiv(ToDouble(write_misses), kilo_insts)]

\* A mutant of add_prof_data: the sum is not halved.
add_prof_data_sum(lhs, rhs) ==
  [read_mpki  |-> DAdd(lhs.read_mpki, rhs.read_mpki),
   write_mpki |-> DAdd(lhs.write_mpki, rhs.write_mpki)]

\* add_prof_data: the new value of lhs.
add_prof_data(lhs, rhs) ==
  [read_mpki  |-> DDiv(DAdd(lhs.read_mpki, rhs.read_mpki), D(2)),
   write_mpki |-> DDiv(DAdd(lhs.write_mpki, rhs.write_mpki), D(2))]

(***************************************************************************)
(* The hash table of loop data.                                            *)
(***************************************************************************)
EmptyTable == [a \in {} |-> UninitProfData]

\* g_hash_table_lookup: whether the key is present.
Found(table, addr) == addr \in DOMAIN table

\* A loop_data_t as find_or_insert_loop_data creates it: an empty stack,
\* prof_data not written, has_prof_data false.
NoLoopData == [perf_data_stack |-> << >>,
               prof_data       |-> UninitProfData,
               has_prof_data   |-> FALSE]

\* A mutant of find_or_insert_loop_data: no lookup, a fresh loop data is
\* inserted on every call and replaces the one of an earlier entry.
find_or_insert_loop_data_always_insert(table, addr) ==
  [a \in DOMAIN table \cup {addr} |->
     IF a = addr THEN NoLoopData ELSE table[a]]

\* find_or_insert_loop_data: the table after the call; the loop data the
\* call returns is the entry of addr in it.
find_or_insert_loop_data(table, addr) ==
  IF Found(table, addr) THEN table ELSE table @@ (addr :> NoLoopData)

\* The counter group after the program ran for one step.
Advance(counter, step) ==
  [i \in 1..LEN_PERF_EVENTS |-> Add64(counter[i], U64(step[i]))]

ZeroCounter == [i \in 1..LEN_PERF_EVENTS |-> U64(0)]

(***************************************************************************)
(* History of the run, kept for stating properties: per call-site the      *)
(* number of completed entries, the greatest stack length reached, the     *)
(* open invocations (the number t of the call that entered and the         *)
(* counter values snap it read), and for every completed exit, in          *)
(* completion order, the snapshot found on the stack (last), the snapshot  *)
(* the exit read (cur), the numbers of the entering and the exiting call   *)
(* (t_in, t_out) and the counter values the entry had read (pushed).       *)
(***************************************************************************)
NoHist == [a \in Addrs |-> [entered |-> 0, peak |-> 0, samples |-> << >>,
                            open |-> << >>]]

\* The most recent open invocation of a history, if there is one.
NoInvocation == [t |-> 0, snap |-> UninitPerfData]

LastOpen(open) == IF Len(open) = 0 THEN NoInvocation ELSE open[Len(open)]

PopOpen(open) == IF Len(open) = 0 THEN open ELSE SubSeq(open, 1, Len(open) - 1)

\* An output file: whether it exists, the complete 8-byte fields it holds
\* (data) and, after a short write, the leading bytes of one more field
\* (tail: empty, or one pair of the field and the number of its bytes
\* stored).
NoOutFile == [exists |-> FALSE, data |-> << >>, tail |-> << >>]

EmptyOutFile == [exists |-> TRUE, data |-> << >>, tail |-> << >>]

\* Strings are sequences of characters.  getenv("PROFILE_OUTPUT") of a
\* process that does not have the variable, and the state in which open()
\* was not called.
Unset == [set |-> FALSE, value |-> << >>]

NotOpened == [called |-> FALSE, path |-> << >>]

\* Greatest length of a program name.
MaxNameLen == 260

\* sizeof(name_buf).
NAME_BUF_SIZE == 256

\* The string of n characters "x".
NameOfLen(n) == [i \in 1..n |-> "x"]

\* The names of the programs that run the profiler: a short one, and one
\* whose "<name>.prof" does not fit name_buf.
RunNames == { << "a" >>, NameOfLen(NAME_BUF_SIZE - 5) }

(***************************************************************************)
(* Constructor.                                                            *)
(***************************************************************************)
Init ==
  /\ pc = "start"
  /\ perf_state = "unopened"
  /\ perf_counter = ZeroCounter
  /\ loop_data_table = EmptyTable
  /\ out_file = NoOutFile
  /\ panic_msg = ""
  /\ hist = NoHist
  /\ calls = 0
  /\ calc_data = NoLoopData
  /\ calc_out = UninitProfData
  /\ calc_hist = << >>
  /\ syscalls = << >>
  /\ tokens = << >>
  /\ pc_v1 = "start"
  /\ perf_data_stack = << >>
  /\ loop_profs = EmptyTable
  /\ out_file_v1 = NoOutFile
  /\ panic_msg_v1 = ""
  /\ PROFILE_OUTPUT = Unset
  /\ program_invocation_short_name \in RunNames
  /\ output_file_name = NotOpened

\* A mutant of init_perf_events: the counter group is reset but never
\* enabled.
init_perf_events_no_enable(failed_at) ==
  IF failed_at = 0
  THEN [i \in 1..LEN_PERF_EVENTS |-> "perf_event_open"] \o << "ioctl_reset" >>
  ELSE [i \in 1..failed_at |->
          IF i < failed_at THEN "perf_event_open" ELSE "perf_event_open_failed"]

\* init_perf_events: the system calls it makes when the event number
\* failed_at cannot be opened (0: all events are opened).
init_perf_events(failed_at) ==
  IF failed_at = 0
  THEN [i \in 1..LEN_PERF_EVENTS |-> "perf_event_open"]
         \o << "ioctl_reset", "ioctl_enable" >>
  ELSE [i \in 1..failed_at |->
          IF i < failed_at THEN "perf_event_open" ELSE "perf_event_open_failed"]

\* init_all: init_perf_events then init_loop_data_table.
init_all ==
  /\ pc = "start"
  /\ \E failed_at \in 0..LEN_PERF_EVENTS :
       /\ syscalls' = syscalls \o init_perf_events(failed_at)
       /\ IF failed_at = 0
          THEN /\ perf_state' = "enabled"
               /\ perf_counter' = ZeroCounter
               /\ loop_data_table' = EmptyTable
               /\ pc' = "running"
               /\ panic_msg' = panic_msg
          ELSE /\ pc' = "aborted"
               /\ panic_msg' = "Failed to open perf event"
               /\ UNCHANGED <<perf_state, perf_counter, loop_data_table>>
  /\ UNCHANGED <<vars_open, out_file, hist, calls, calc_data, calc_out, calc_hist,
                 tokens, vars_v1>>

(***************************************************************************)
(* Profiling functions.                                                    *)
(***************************************************************************)
\* PANIC: the message on stderr, then abort().
PANIC(msg, table) == [pc |-> "aborted", msg |-> msg, table |-> table]

\* The table after __loop_profile_func_enter found or inserted the loop
\* data of addr and grew its stack by one slot, not yet written.
EnterSlot(table, addr) ==
  LET found == find_or_insert_loop_data(table, addr)
  IN  [found EXCEPT ![addr].perf_data_stack = Append(@, UninitPerfData)]

\* A mutant of EnterTable: one stack shared by all call-sites, the
\* snapshot is pushed on the stack of every registered call-site.
EnterTable_shared(table, addr, cur) ==
  LET found == find_or_insert_loop_data(table, addr)
  IN  [a \in DOMAIN found |->
         [found[a] EXCEPT !.perf_data_stack =
            Append(@, fill_perf_data(ReadFormat(cur)))]]

\* A mutant of EnterTable: the values read are written into every slot of
\* the stack of the call-site, not only into the new one.
EnterTable_refresh_all(table, addr, cur) ==
  LET slot == EnterSlot(table, addr)
  IN  [slot EXCEPT ![addr].perf_data_stack =
         [i \in 1..Len(slot[addr].perf_data_stack) |->
            fill_perf_data(ReadFormat(cur))]]

\* The table after __loop_profile_func_enter wrote the values read into
\* the new slot, the last one of the stack.
EnterTable(table, addr, cur) ==
  LET slot == EnterSlot(table, addr)
  IN  [slot EXCEPT ![addr].perf_data_stack[Len(slot[addr].perf_data_stack)] =
         fill_perf_data(ReadFormat(cur))]

\* __loop_profile_func_enter: what the call does to the process, given the
\* table, the return address, the counter values and whether read()
\* delivered them.  The call returns addr.
EnterResult(table, addr, cur, read_ok) ==
  IF ~read_ok THEN PANIC("Failed to read from fd", EnterSlot(table, addr))
  ELSE [pc |-> "running", msg |-> "", table |-> EnterTable(table, addr, cur)]

\* A call of __loop_profile_func_enter(addr) by the instrumented program,
\* while fewer than budget calls were made.
EnterCall(addr, budget) ==
  /\ pc = "running"
  /\ calls < budget
  /\ \E step \in Steps, read_ok \in BOOLEAN :
       LET cur == Advance(perf_counter, step)
           res == EnterResult(loop_data_table, addr, cur, read_ok)
       IN
       /\ perf_counter' = cur
       /\ calls' = calls + 1
       /\ pc' = res.pc
       /\ panic_msg' = res.msg
       /\ loop_data_table' = res.table
       /\ hist' =
            IF read_ok
            THEN LET depth == IF Found(loop_data_table, addr)
                              THEN Len(loop_data_table[addr].perf_data_stack) + 1
                              ELSE 1
                 IN  [hist EXCEPT ![addr].entered = @ + 1,
                                  ![addr].peak = IF depth > @ THEN depth ELSE @,
                                  ![addr].open =
                                     Append(@, [t |-> calls + 1, snap |-> cur])]
            ELSE hist
       /\ syscalls' = Append(syscalls, IF read_ok THEN "read" ELSE "read_failed")
  /\ UNCHANGED <<vars_open, perf_state, out_file, calc_data, calc_out, calc_hist,
                 tokens, vars_v1>>

\* The entry call of the two call-site program.
__loop_profile_func_enter(addr) == EnterCall(addr, MaxCalls)

\* A mutant of ExitSample: the oldest snapshot of the stack is used.
ExitSample_oldest(data, cur) ==
  fill_prof_data(data.perf_data_stack[1], fill_perf_data(ReadFormat(cur)))

\* The sample __loop_profile_func_exit computes for the top of the stack.
ExitSample(data, cur) ==
  fill_prof_data(data.perf_data_stack[Len(data.perf_data_stack)],
                 fill_perf_data(ReadFormat(cur)))

\* A mutant of ExitData: the new sample overwrites the aggregate.
ExitData_overwrite(data, cur) ==
  [perf_data_stack |-> SubSeq(data.perf_data_stack, 1,
                              Len(data.perf_data_stack) - 1),
   prof_data       |-> ExitSample(data, cur),
   has_prof_data   |-> TRUE]

\* The loop data after __loop_profile_func_exit updated and popped it.
ExitData(data, cur) ==
  [perf_data_stack |-> SubSeq(data.perf_data_stack, 1,
                              Len(data.perf_data_stack) - 1),
   prof_data       |-> IF data.has_prof_data
                       THEN add_prof_data(data.prof_data, ExitSample(data, cur))
                       ELSE ExitSample(data, cur),
   has_prof_data   |-> TRUE]

\* A mutant of ExitResult: no underflow check, an exit on an empty stack
\* returns without effect.
ExitResult_no_underflow_check(table, addr, cur, read_ok) ==
  IF ~read_ok THEN PANIC("Failed to read from fd", table)
  ELSE IF ~Found(table, addr) THEN PANIC("Loop data not found!", table)
  ELSE IF Len(table[addr].perf_data_stack) = 0
  THEN [pc |-> "running", msg |-> "", table |-> table]
  ELSE [pc    |-> "running",
        msg   |-> "",
        table |-> [table EXCEPT ![addr] = ExitData(table[addr], cur)]]

\* A mutant of ExitResult: the loop data is looked up with
\* find_or_insert_loop_data, which registers an unknown token.
ExitResult_find_or_insert(table, addr, cur, read_ok) ==
  LET found == find_or_insert_loop_data(table, addr) IN
  IF ~read_ok THEN PANIC("Failed to read from fd", table)
  ELSE IF Len(found[addr].perf_data_stack) = 0
  THEN PANIC("Performance data stack is empty!", found)
  ELSE [pc    |-> "running",
        msg   |-> "",
        table |-> [found EXCEPT ![addr] = ExitData(found[addr], cur)]]

\* A mutant of ExitResult: an instruction delta of zero is refused.
ExitResult_zero_delta_check(table, addr, cur, read_ok) ==
  IF ~read_ok THEN PANIC("Failed to read from fd", table)
  ELSE IF ~Found(table, addr) THEN PANIC("Loop data not found!", table)
  ELSE IF Len(table[addr].perf_data_stack) = 0
  THEN PANIC("Performance data stack is empty!", table)
  ELSE IF table[addr].perf_data_stack[Len(table[addr].perf_data_stack)][1]
            = cur[1]
  THEN PANIC("No instruction retired!", table)
  ELSE [pc    |-> "running",
        msg   |-> "",
        table |-> [table EXCEPT ![addr] = ExitData(table[addr], cur)]]

\* A mutant of ExitResult: nesting is enforced across call-sites, an exit
\* is refused while another call-site has an open invocation.
ExitResult_global_nesting(table, addr, cur, read_ok) ==
  IF ~read_ok THEN PANIC("Failed to read from fd", table)
  ELSE IF ~Found(table, addr) THEN PANIC("Loop data not found!", table)
  ELSE IF Len(table[addr].perf_data_stack) = 0
  THEN PANIC("Performance data stack is empty!", table)
  ELSE IF \E b \in DOMAIN table \ {addr} : Len(table[b].perf_data_stack) > 0
  THEN PANIC("Loop exits are not nested!", table)
  ELSE [pc    |-> "running",
        msg   |-> "",
        table |-> [table EXCEPT ![addr] = ExitData(table[addr], cur)]]

\* A mutant of ExitResult: the result of read() is not checked, the exit
\* goes on with the content of the buffer.
ExitResult_unchecked_read(table, addr, cur, read_ok) ==
  IF ~Found(table, addr) THEN PANIC("Loop data not found!", table)
  ELSE IF Len(table[addr].perf_data_stack) = 0
  THEN PANIC("Performance data stack is empty!", table)
  ELSE [pc    |-> "running",
        msg   |-> "",
        table |-> [table EXCEPT ![addr] = ExitData(table[addr], cur)]]

\* __loop_profile_func_exit: what the call does to the process, given the
\* table, the token, the counter values and whether read() delivered them.
ExitResult(table, addr, cur, read_ok) ==
  IF ~read_ok THEN PANIC("Failed to read from fd", table)
  ELSE IF ~Found(table, addr) THEN PANIC("Loop data not found!", table)
  ELSE IF Len(table[addr].perf_data_stack) = 0
  THEN PANIC("Performance data stack is empty!", table)
  ELSE [pc    |-> "running",
        msg   |-> "",
        table |-> [table EXCEPT ![addr] = ExitData(table[addr], cur)]]

\* A call of __loop_profile_func_exit(addr) by the instrumented program,
\* while fewer than budget calls were made.
ExitCall(addr, budget) ==
  /\ pc = "running"
  /\ calls < budget
  /\ \E step \in Steps, read_ok \in BOOLEAN :
       LET cur == Advance(perf_counter, step)
           res == ExitResult(loop_data_table, addr, cur, read_ok)
       IN
       /\ perf_counter' = cur
       /\ calls' = calls + 1
       /\ pc' = res.pc
       /\ panic_msg' = res.msg
       /\ loop_data_table' = res.table
       /\ hist' =
            IF /\ read_ok
               /\ Found(loop_data_table, addr)
               /\ Len(loop_data_table[addr].perf_data_stack) > 0
            THEN [hist EXCEPT
                    ![addr].samples = Append(@,
                      LET stack == loop_data_table[addr].perf_data_stack
                          inv   == LastOpen(hist[addr].open)
                      IN  [last |-> stack[Len(stack)], cur |-> cur,
                           t_in |-> inv.t, t_out |-> calls + 1,
                           pushed |-> inv.snap]),
                    ![addr].open = PopOpen(@)]
            ELSE hist
       /\ syscalls' = Append(syscalls, IF read_ok THEN "read" ELSE "read_failed")
  /\ UNCHANGED <<vars_open, perf_state, out_file, calc_data, calc_out, calc_hist,
                 tokens, vars_v1>>

\* The exit call of the two call-site program.
__loop_profile_func_exit(addr) == ExitCall(addr, MaxCalls)

(***************************************************************************)
(* Destructor.                                                             *)
(***************************************************************************)
\* get_relocation: the load address of the main program.
get_relocation == U64(4096)

\* The orders in which g_hash_table_foreach may visit the keys.
Orders(keys) ==
  { ord \in [1..Cardinality(keys) -> keys] :
      \A i, j \in 1..Cardinality(keys) : ord[i] = ord[j] => i = j }

\* The entries whose prof_data was never written since malloc.
UninitKeys(table) == { a \in DOMAIN table : table[a].prof_data = UninitProfData }

\* The bytes of the prof_data of addr as write() sees them: never-written
\* memory reads as any value (junk).
ProfDataBytes(table, addr, junk) ==
  IF addr \in UninitKeys(table) THEN junk[addr] ELSE table[addr].prof_data

\* write_loop_prof: the two write_assert calls for one entry, each call a
\* sequence of 8-byte fields.
write_loop_prof(table, addr, junk) ==
  << << addr >>,
     << ProfDataBytes(table, addr, junk).read_mpki,
        ProfDataBytes(table, addr, junk).write_mpki >> >>

\* The write_assert calls of cleanup_loop_data_table, in order: the one of
\* open_output_file, then those of write_loop_prof for every entry.
RECURSIVE ForeachWrites(_, _, _, _)
ForeachWrites(table, ord, junk, i) ==
  IF i > Len(ord) THEN << >>
  ELSE write_loop_prof(table, ord[i], junk)
         \o ForeachWrites(table, ord, junk, i + 1)

WriteCalls(table, ord, junk) ==
  << << get_relocation >> >> \o ForeachWrites(table, ord, junk, 1)

\* The file content after the first n write calls.
RECURSIVE Written(_, _)
Written(writes, n) ==
  IF n = 0 THEN << >> ELSE Written(writes, n - 1) \o writes[n]

\* sizeof(void *), sizeof(uintptr_t), sizeof(double): the size of a field.
FIELD_SIZE == 8

\* A write() that begins where the file has reached the file size limit of
\* the process (RLIMIT_FSIZE) stores nothing and does not return: the
\* kernel sends SIGXFSZ, for which the library installs no handler, and the
\* signal's default action terminates the process.
SIGXFSZ == 0 - 1

\* What a failing write() of the fields of call may do: store some bytes
\* and return their number, which is none (an error) or any number short
\* of all of them (a short write: full disk, file size limit further on),
\* or end the process by SIGXFSZ.
StoredBytes(call) == { SIGXFSZ } \cup 0..(FIELD_SIZE * Len(call) - 1)

\* The file after the first n write calls succeeded and the next one, if
\* there is one, stored only its first stored bytes.
FileAfter(writes, n, stored) ==
  IF n >= Len(writes)
  THEN [exists |-> TRUE, data |-> Written(writes, Len(writes)),
        tail |-> << >>]
  ELSE LET call  == writes[n + 1]
           whole == stored \div FIELD_SIZE
           part  == stored % FIELD_SIZE
       IN  [exists |-> TRUE,
            data   |-> Written(writes, n) \o SubSeq(call, 1, whole),
            tail   |-> IF part = 0 THEN << >>
                       ELSE << << call[whole + 1], part >> >>]

ProgramNames == { NameOfLen(n) : n \in 1..MaxNameLen }

\* PROFILE_OUTPUT: not set, set to a short path, set to a path longer than
\* name_buf.
EnvSettings ==
  { Unset,
    [set |-> TRUE, value |-> << "o" >>],
    [set |-> TRUE, value |-> [i \in 1..(NAME_BUF_SIZE + 44) |-> "o"]] }

\* The suffix of the format "%s.prof".
Suffix == << ".", "p", "r", "o", "f" >>

\* snprintf(buf, size, ...) for the formatted string str, size > 0: at most
\* size - 1 characters are stored (then the terminating null), the value
\* returned is the length of the whole formatted string.
snprintf(size, str) ==
  [ret |-> Len(str),
   buf |-> SubSeq(str, 1, IF Len(str) < size - 1 THEN Len(str) ELSE size - 1)]

\* The first part of open_output_file: the name passed to open(), or the
\* panic that the program name is too long.
OutputFileName(env, name) ==
  IF env.set
  THEN [panic |-> FALSE, path |-> env.value]
  ELSE LET r == snprintf(NAME_BUF_SIZE - 1, name \o Suffix)
       IN  IF r.ret >= NAME_BUF_SIZE
           THEN [panic |-> TRUE, path |-> << >>]
           ELSE [panic |-> FALSE, path |-> r.buf]

\* open_output_file, then the write_assert calls of the hash table
\* entries, then close: what they do to the process when the environment
\* and the name of the program are env and name, open() succeeds or not
\* (opened), the first n calls of writes succeed (the first of them is the
\* write of the relocation by open_output_file) and the next one stores
\* stored bytes, or ends the process when stored is SIGXFSZ: then
\* write_assert prints nothing and abort() is not called.  path is what
\* open() was called with (before, if it was not called).
WriteOutputFile(file, before, env, name, opened, writes, n, stored) ==
  LET f == OutputFileName(env, name) IN
  IF f.panic
  THEN [pc   |-> "aborted",
        msg  |-> "Program name is too long.",
        file |-> file,
        path |-> before,
        log  |-> << >>]
  ELSE IF ~opened
  THEN [pc   |-> "aborted",
        msg  |-> "Failed to open the output file",
        file |-> file,
        path |-> [called |-> TRUE, path |-> f.path],
        log  |-> << "open_output_failed" >>]
  ELSE IF n < Len(writes) /\ stored = SIGXFSZ
  THEN [pc   |-> "killed",
        msg  |-> "",
        file |-> FileAfter(writes, n, 0),
        path |-> [called |-> TRUE, path |-> f.path],
        log  |-> << "open_output" >> \o [i \in 1..n |-> "write"]
                   \o << "write_sigxfsz" >>]
  ELSE IF n < Len(writes)
  THEN [pc   |-> "aborted",
        msg  |-> "Failed to write to fd",
        file |-> FileAfter(writes, n, stored),
        path |-> [called |-> TRUE, path |-> f.path],
        log  |-> << "open_output" >> \o [i \in 1..n |-> "write"]
                   \o << "write_failed" >>]
  ELSE [pc   |-> "exited",
        msg  |-> "",
        file |-> FileAfter(writes, Len(writes), 0),
        path |-> [called |-> TRUE, path |-> f.path],
        log  |-> << "open_output" >> \o [i \in 1..Len(writes) |-> "write"]
                   \o << "close_output" >>]

\* The choices of a failing write among writes: the number n of calls that
\* succeed before it and the bytes it stores (or SIGXFSZ); n = Len(writes)
\* with 0 bytes stands for no failing write.
WriteFaults(writes) ==
  { << Len(writes), 0 >> }
    \cup UNION { { << n, stored >> : stored \in StoredBytes(writes[n + 1]) } :
                   n \in 0..(Len(writes) - 1) }

\* cleanup_perf_events: the system calls it makes.
cleanup_perf_events ==
  << "ioctl_disable" >> \o [i \in 1..LEN_PERF_EVENTS |-> "close_perf"]

\* cleanup_loop_data_table (open_output_file,
\* g_hash_table_foreach(write_loop_prof), close, g_hash_table_destroy):
\* the table is visited in the order ord, never-written memory holds junk.
cleanup_loop_data_table(table, file, before, env, name, opened, ord, junk, n, stored) ==
  LET res == WriteOutputFile(file, before, env, name, opened,
                             WriteCalls(table, ord, junk), n, stored)
  IN  [pc    |-> res.pc,
       msg   |-> res.msg,
       file  |-> res.file,
       path  |-> res.path,
       log   |-> res.log,
       table |-> IF res.pc = "exited" THEN EmptyTable ELSE table]

\* What the environment decides during cleanup_loop_data_table: whether
\* open() succeeds and, when it does, the order ord in which the table is
\* walked, the bytes junk of every prof_data never written, and the failing
\* write.  When the name is too long the code reaches none of them, when
\* open() fails none of the last three.
Openings(env, name) ==
  IF OutputFileName(env, name).panic THEN { FALSE } ELSE BOOLEAN

OrdersReached(table, opened) ==
  IF opened THEN Orders(DOMAIN table) ELSE { << >> }

JunkReached(table, opened) ==
  IF opened THEN [UninitKeys(table) -> Garbage] ELSE { << >> }

FaultsReached(writes, opened) ==
  IF opened THEN WriteFaults(writes) ELSE { << 0, 0 >> }

\* cleanup_all: cleanup_perf_events then cleanup_loop_data_table.
cleanup_all ==
  /\ pc = "running"
  /\ calls < MaxCalls
  /\ calls' = calls + 1
  /\ perf_state' = "closed"
  /\ \E opened \in Openings(PROFILE_OUTPUT, program_invocation_short_name) :
     \E ord \in OrdersReached(loop_data_table, opened) :
     \E junk \in JunkReached(loop_data_table, opened) :
     \E fault \in FaultsReached(WriteCalls(loop_data_table, ord, junk),
                                opened) :
       LET res == cleanup_loop_data_table(
                    loop_data_table, out_file, output_file_name,
                    PROFILE_OUTPUT, program_invocation_short_name,
                    opened, ord, junk, fault[1], fault[2])
       IN  /\ pc' = res.pc
           /\ panic_msg' = res.msg
           /\ out_file' = res.file
           /\ output_file_name' = res.path
           /\ loop_data_table' = res.table
           /\ syscalls' = syscalls \o cleanup_perf_events \o res.log
  /\ UNCHANGED <<PROFILE_OUTPUT, program_invocation_short_name, perf_counter,
                 hist, calc_data, calc_out, calc_hist, tokens, vars_v1>>

Next ==
  \/ init_all
  \/ \E addr \in Addrs : __loop_profile_func_enter(addr)
  \/ \E addr \in Addrs : __loop_profile_func_exit(addr)
  \/ cleanup_all

Spec == Init /\ [][Next]_vars

(***************************************************************************)
(* A program with a single instrumented call-site, which may recurse: the  *)
(* entry and exit functions are called more often than in Spec, so that    *)
(* several invocations complete on one stack, nested or in sequence.       *)
(***************************************************************************)
\* Number of entry and exit calls of the single call-site program.
MaxFoldCalls == 7

\* The return address of its only call-site.
FoldSite == "A"

enter_one_site == EnterCall(FoldSite, MaxFoldCalls)

exit_one_site == ExitCall(FoldSite, MaxFoldCalls)

Next_fold ==
  \/ init_all
  \/ enter_one_site
  \/ exit_one_site

\* The program's name plays no part before the destructor runs.
Init_fold == Init /\ program_invocation_short_name = << "a" >>

Spec_fold == Init_fold /\ [][Next_fold]_vars

(***************************************************************************)
(* The computation of one call-site in isolation: fill_prof_data and       *)
(* add_prof_data applied by the exit function to snapshots drawn from      *)
(* bounded sets, including counters about to wrap around 2^64.             *)
(***************************************************************************)
\* Number of invocations folded into the aggregate.
MaxFolds == 3

\* Counter values at the first entry: zero, or just below 2^64.
CalcBases ==
  { ZeroCounter,
    [i \in 1..LEN_PERF_EVENTS |->
       << Limb - <<500, 5, 15>>[i], Limb - 1, Limb - 1, Limb - 1 >>] }

\* Counter increments between entry and exit.
CalcSteps == { <<0, 0, 0>>, <<0, 5, 0>>, <<1000, 10, 10>>, <<1000, 20, 20>>,
               <<1000, 30, 30>>, <<2000, 10, 0>>, <<3000, 0, 10>>, <<7, 5, 0>> }

InitCalc ==
  /\ pc = "calc"
  /\ perf_state = "unopened"
  /\ perf_counter = ZeroCounter
  /\ loop_data_table = EmptyTable
  /\ out_file = NoOutFile
  /\ panic_msg = ""
  /\ hist = NoHist
  /\ calls = 0
  /\ calc_data = NoLoopData
  /\ calc_out = UninitProfData
  /\ calc_hist = << >>
  /\ syscalls = << >>
  /\ tokens = << >>
  /\ pc_v1 = "start"
  /\ perf_data_stack = << >>
  /\ loop_profs = EmptyTable
  /\ out_file_v1 = NoOutFile
  /\ panic_msg_v1 = ""
  /\ PROFILE_OUTPUT = Unset
  /\ program_invocation_short_name = << "a" >>
  /\ output_file_name = NotOpened

\* The entry function's push of a snapshot.  The counters of the first
\* invocation stand at one of CalcBases; a later invocation reads them
\* where the exit before it left them, since a counter only advances.
CalcEnter ==
  /\ pc = "calc"
  /\ Len(calc_data.perf_data_stack) = 0
  /\ Len(calc_hist) < MaxFolds
  /\ \E base \in IF Len(calc_hist) = 0 THEN CalcBases ELSE { perf_counter } :
       /\ perf_counter' = base
       /\ calc_data' = [calc_data EXCEPT !.perf_data_stack =
                          Append(@, fill_perf_data(ReadFormat(base)))]
  /\ UNCHANGED <<vars_open, pc, perf_state, loop_data_table, out_file,
                 panic_msg, hist, calls, calc_out, calc_hist, syscalls,
                 tokens, vars_v1>>

\* The exit function's update of the loop data.
CalcExit ==
  /\ pc = "calc"
  /\ Len(calc_data.perf_data_stack) > 0
  /\ \E step \in CalcSteps :
       LET last == calc_data.perf_data_stack[Len(calc_data.perf_data_stack)]
           cur  == Advance(last, step)
       IN  /\ perf_counter' = cur
           /\ calc_data' = ExitData(calc_data, cur)
           /\ calc_out' = ExitSample(calc_data, cur)
           /\ calc_hist' = Append(calc_hist,
                                  [last |-> last, cur |-> cur, step |-> step])
  /\ UNCHANGED <<vars_open, pc, perf_state, loop_data_table, out_file,
                 panic_msg, hist, calls, syscalls, tokens, vars_v1>>

NextCalc == CalcEnter \/ CalcExit

SpecCalc == InitCalc /\ [][NextCalc]_vars

(***************************************************************************)
(* The single-stack library (src/libprof.c): one global stack of           *)
(* address-data pairs and a hash table of profiling data that is filled by *)
(* the exit function.  Its fill_perf_data, fill_prof_data, add_prof_data,  *)
(* init_perf_events, cleanup_perf_events and open_output_file are the same *)
(* as those of the per-call-site engine.                                   *)
(***************************************************************************)
\* init_stack_hash: the empty stack and the empty hash table.
init_stack_hash == [stack |-> << >>, profs |-> EmptyTable]

init_all_v1 ==
  /\ pc_v1 = "start"
  /\ \E failed_at \in 0..LEN_PERF_EVENTS :
       /\ syscalls' = syscalls \o init_perf_events(failed_at)
       /\ IF failed_at = 0
          THEN /\ perf_state' = "enabled"
               /\ perf_counter' = ZeroCounter
               /\ perf_data_stack' = init_stack_hash.stack
               /\ loop_profs' = init_stack_hash.profs
               /\ pc_v1' = "running"
               /\ panic_msg_v1' = panic_msg_v1
          ELSE /\ pc_v1' = "aborted"
               /\ panic_msg_v1' = "Failed to open perf event"
               /\ UNCHANGED <<perf_state, perf_counter, perf_data_stack,
                              loop_profs>>
  /\ UNCHANGED <<vars_open, pc, loop_data_table, out_file, panic_msg, hist, calls,
                 calc_data, calc_out, calc_hist, tokens, out_file_v1>>

\* PANIC of the single-stack library.
PANIC_v1(msg, stack, profs) ==
  [pc |-> "aborted", msg |-> msg, stack |-> stack, profs |-> profs]

\* __loop_profile_func_enter of libprof.c: the stack grows by one pair, the
\* return address is written, then the counters are read into the pair.
EnterResult_v1(stack, profs, addr, cur, read_ok) ==
  IF ~read_ok
  THEN PANIC_v1("Failed to read from fd",
                Append(stack, [addr |-> addr, data |-> UninitPerfData]), profs)
  ELSE [pc    |-> "running",
        msg   |-> "",
        stack |-> Append(stack, [addr |-> addr,
                                 data |-> fill_perf_data(ReadFormat(cur))]),
        profs |-> profs]

__loop_profile_func_enter_v1(addr) ==
  /\ pc_v1 = "running"
  /\ calls < MaxCalls
  /\ \E step \in Steps, read_ok \in BOOLEAN :
       LET cur == Advance(perf_counter, step)
           res == EnterResult_v1(perf_data_stack, loop_profs, addr, cur, read_ok)
       IN
       /\ perf_counter' = cur
       /\ calls' = calls + 1
       /\ pc_v1' = res.pc
       /\ panic_msg_v1' = res.msg
       /\ perf_data_stack' = res.stack
       /\ loop_profs' = res.profs
       /\ syscalls' = Append(syscalls, IF read_ok THEN "read" ELSE "read_failed")
  /\ UNCHANGED <<vars_open, pc, perf_state, loop_data_table, out_file, panic_msg, hist,
                 calc_data, calc_out, calc_hist, tokens, out_file_v1>>

\* The hash table after the exit function combined the sample of pair into
\* the profiling data of the address of the pair, or inserted it.
ExitProfs_v1(profs, pair, cur) ==
  LET prof_data == fill_prof_data(pair.data, fill_perf_data(ReadFormat(cur)))
  IN  IF Found(profs, pair.addr)
      THEN [profs EXCEPT ![pair.addr] = add_prof_data(@, prof_data)]
      ELSE profs @@ (pair.addr :> prof_data)

\* A mutant of ExitResult_v1: the stack is used as a queue, the exit takes
\* and removes the oldest pair.
ExitResult_v1_oldest_pair(stack, profs, cur, read_ok) ==
  IF ~read_ok THEN PANIC_v1("Failed to read from fd", stack, profs)
  ELSE IF Len(stack) = 0
  THEN PANIC_v1("Performance data stack is empty!", stack, profs)
  ELSE [pc    |-> "running",
        msg   |-> "",
        stack |-> SubSeq(stack, 2, Len(stack)),
        profs |-> ExitProfs_v1(profs, stack[1], cur)]

\* __loop_profile_func_exit of libprof.c: it takes no token, the call-site
\* is the address of the pair on top of the stack.
ExitResult_v1(stack, profs, cur, read_ok) ==
  IF ~read_ok THEN PANIC_v1("Failed to read from fd", stack, profs)
  ELSE IF Len(stack) = 0
  THEN PANIC_v1("Performance data stack is empty!", stack, profs)
  ELSE [pc    |-> "running",
        msg   |-> "",
        stack |-> SubSeq(stack, 1, Len(stack) - 1),
        profs |-> ExitProfs_v1(profs, stack[Len(stack)], cur)]

__loop_profile_func_exit_v1 ==
  /\ pc_v1 = "running"
  /\ calls < MaxCalls
  /\ \E step \in Steps, read_ok \in BOOLEAN :
       LET cur == Advance(perf_counter, step)
           res == ExitResult_v1(perf_data_stack, loop_profs, cur, read_ok)
       IN
       /\ perf_counter' = cur
       /\ calls' = calls + 1
       /\ pc_v1' = res.pc
       /\ panic_msg_v1' = res.msg
       /\ perf_data_stack' = res.stack
       /\ loop_profs' = res.profs
       /\ syscalls' = Append(syscalls, IF read_ok THEN "read" ELSE "read_failed")
  /\ UNCHANGED <<vars_open, pc, perf_state, loop_data_table, out_file, panic_msg, hist,
                 calc_data, calc_out, calc_hist, tokens, out_file_v1>>

\* write_loop_perf: the two write_assert calls for one entry of the hash
\* table.
write_loop_perf(profs, addr) ==
  << << addr >>, << profs[addr].read_mpki, profs[addr].write_mpki >> >>

RECURSIVE ForeachWrites_v1(_, _, _)
ForeachWrites_v1(profs, ord, i) ==
  IF i > Len(ord) THEN << >>
  ELSE write_loop_perf(profs, ord[i]) \o ForeachWrites_v1(profs, ord, i + 1)

\* The write_assert calls of cleanup_stack_hash, in order.
WriteCalls_v1(profs, ord) ==
  << << get_relocation >> >> \o ForeachWrites_v1(profs, ord, 1)

\* What cleanup_stack_hash does from open_output_file on.
WriteOutput_v1(stack, profs, file, before, env, name, opened, ord, n, stored) ==
  LET res == WriteOutputFile(file, before, env, name, opened,
                             WriteCalls_v1(profs, ord), n, stored)
  IN  [pc    |-> res.pc,
       msg   |-> res.msg,
       file  |-> res.file,
       path  |-> res.path,
       log   |-> res.log,
       stack |-> stack,
       profs |-> IF res.pc = "exited" THEN EmptyTable ELSE profs]

\* A mutant of cleanup_stack_hash: the stack is tested after the output
\* file was written.
cleanup_stack_hash_late_check(stack, profs, file, before, env, name, opened, ord, n, stored) ==
  LET res == WriteOutput_v1(stack, profs, file, before, env, name, opened,
                            ord, n, stored)
  IN  IF res.pc = "exited" /\ Len(stack) > 0
      THEN [res EXCEPT !.pc = "aborted",
                       !.msg = "Performance data stack is not empty!",
                       !.profs = profs]
      ELSE res

\* cleanup_stack_hash: a stack that is not empty is fatal; otherwise
\* open_output_file, g_hash_table_foreach(write_loop_perf), close,
\* g_hash_table_destroy.
cleanup_stack_hash(stack, profs, file, before, env, name, opened, ord, n, stored) ==
  IF Len(stack) > 0
  THEN [pc    |-> "aborted",
        msg   |-> "Performance data stack is not empty!",
        file  |-> file,
        path  |-> before,
        log   |-> << >>,
        stack |-> stack,
        profs |-> profs]
  ELSE WriteOutput_v1(stack, profs, file, before, env, name, opened, ord, n,
                      stored)

\* cleanup_all of libprof.c: cleanup_perf_events then cleanup_stack_hash.
cleanup_all_v1 ==
  /\ pc_v1 = "running"
  /\ calls < MaxCalls
  /\ calls' = calls + 1
  /\ perf_state' = "closed"
  /\ \E opened \in BOOLEAN, ord \in Orders(DOMAIN loop_profs) :
       \E fault \in WriteFaults(WriteCalls_v1(loop_profs, ord)) :
       LET res == cleanup_stack_hash(
                    perf_data_stack, loop_profs, out_file_v1,
                    output_file_name, PROFILE_OUTPUT,
                    program_invocation_short_name, opened, ord,
                    fault[1], fault[2])
       IN  /\ pc_v1' = res.pc
           /\ panic_msg_v1' = res.msg
           /\ out_file_v1' = res.file
           /\ output_file_name' = res.path
           /\ perf_data_stack' = res.stack
           /\ loop_profs' = res.profs
           /\ syscalls' = syscalls \o cleanup_perf_events \o res.log
  /\ UNCHANGED <<PROFILE_OUTPUT, program_invocation_short_name, pc,
                 perf_counter, loop_data_table, out_file, panic_msg, hist,
                 calc_data, calc_out, calc_hist, tokens>>

Next_v1 ==
  \/ init_all_v1
  \/ \E addr \in Addrs : __loop_profile_func_enter_v1(addr)
  \/ __loop_profile_func_exit_v1
  \/ cleanup_all_v1

Spec_v1 == Init /\ [][Next_v1]_vars

(***************************************************************************)
(* One instrumented program run twice, linked with the per-call-site       *)
(* engine (pc, loop_data_table, out_file) and with the single-stack        *)
(* library (pc_v1, perf_data_stack, loop_profs, out_file_v1), with the     *)
(* same counter readings in both runs.  The program is well nested: it     *)
(* keeps the tokens of its open loops (tokens), every exit passes the      *)
(* token of the innermost open loop, and it ends with no loop open.  The   *)
(* history and the log of system calls are not kept for the pair of runs.  *)
(***************************************************************************)
init_both ==
  /\ pc = "start"
  /\ pc_v1 = "start"
  /\ \E failed_at \in 0..LEN_PERF_EVENTS :
       IF failed_at = 0
       THEN /\ perf_state' = "enabled"
            /\ perf_counter' = ZeroCounter
            /\ loop_data_table' = EmptyTable
            /\ perf_data_stack' = init_stack_hash.stack
            /\ loop_profs' = init_stack_hash.profs
            /\ pc' = "running"
            /\ pc_v1' = "running"
            /\ UNCHANGED <<panic_msg, panic_msg_v1>>
       ELSE /\ pc' = "aborted"
            /\ pc_v1' = "aborted"
            /\ panic_msg' = "Failed to open perf event"
            /\ panic_msg_v1' = "Failed to open perf event"
            /\ UNCHANGED <<perf_state, perf_counter, loop_data_table,
                           perf_data_stack, loop_profs>>
  /\ UNCHANGED <<vars_open, out_file, out_file_v1, hist, calls, calc_data, calc_out,
                 calc_hist, syscalls, tokens>>

\* The program enters a loop at call-site addr; the engine returns addr as
\* the token.
enter_both(addr) ==
  /\ pc = "running"
  /\ pc_v1 = "running"
  /\ calls < MaxCalls
  /\ \E step \in Steps, read_ok \in BOOLEAN :
       LET cur  == Advance(perf_counter, step)
           res  == EnterResult(loop_data_table, addr, cur, read_ok)
           res1 == EnterResult_v1(perf_data_stack, loop_profs, addr, cur,
                                  read_ok)
       IN
       /\ perf_counter' = cur
       /\ calls' = calls + 1
       /\ pc' = res.pc
       /\ panic_msg' = res.msg
       /\ loop_data_table' = res.table
       /\ pc_v1' = res1.pc
       /\ panic_msg_v1' = res1.msg
       /\ perf_data_stack' = res1.stack
       /\ loop_profs' = res1.profs
       /\ tokens' = IF read_ok THEN Append(tokens, addr) ELSE tokens
  /\ UNCHANGED <<vars_open, perf_state, out_file, out_file_v1, hist, calc_data, calc_out,
                 calc_hist, syscalls>>

\* The program leaves its innermost open loop and passes the token of that
\* loop.
exit_both ==
  /\ pc = "running"
  /\ pc_v1 = "running"
  /\ calls < MaxCalls
  /\ Len(tokens) > 0
  /\ \E step \in Steps, read_ok \in BOOLEAN :
       LET cur  == Advance(perf_counter, step)
           res  == ExitResult(loop_data_table, tokens[Len(tokens)], cur,
                              read_ok)
           res1 == ExitResult_v1(perf_data_stack, loop_profs, cur, read_ok)
       IN
       /\ perf_counter' = cur
       /\ calls' = calls + 1
       /\ pc' = res.pc
       /\ panic_msg' = res.msg
       /\ loop_data_table' = res.table
       /\ pc_v1' = res1.pc
       /\ panic_msg_v1' = res1.msg
       /\ perf_data_stack' = res1.stack
       /\ loop_profs' = res1.profs
       /\ tokens' = IF read_ok THEN SubSeq(tokens, 1, Len(tokens) - 1)
                               ELSE tokens
  /\ UNCHANGED <<vars_open, perf_state, out_file, out_file_v1, hist, calc_data, calc_out,
                 calc_hist, syscalls>>

\* The program ends with no loop open; each run writes its own output
\* file.  Both runs are runs of the same program in the same environment:
\* both compute the same name for the file, open() succeeds for both or for
\* none, and the room for the file ends at the same byte, so that the same
\* write fails after storing the same number of bytes.  The two hash
\* tables are walked each in its own order.
cleanup_both ==
  /\ pc = "running"
  /\ pc_v1 = "running"
  /\ Len(tokens) = 0
  /\ perf_state' = "closed"
  /\ \E opened \in Openings(PROFILE_OUTPUT, program_invocation_short_name) :
     \E ord \in OrdersReached(loop_data_table, opened),
        ord1 \in Orders(DOMAIN loop_profs) :
     \E junk \in JunkReached(loop_data_table, opened) :
     \E fault \in FaultsReached(WriteCalls(loop_data_table, ord, junk),
                                opened) :
       LET res  == cleanup_loop_data_table(
                     loop_data_table, out_file, output_file_name,
                     PROFILE_OUTPUT, program_invocation_short_name,
                     opened, ord, junk, fault[1], fault[2])
           res1 == cleanup_stack_hash(
                     perf_data_stack, loop_profs, out_file_v1,
                     output_file_name, PROFILE_OUTPUT,
                     program_invocation_short_name, opened, ord1,
                     fault[1], fault[2])
       IN  /\ pc' = res.pc
           /\ panic_msg' = res.msg
           /\ out_file' = res.file
           /\ output_file_name' = res.path
           /\ loop_data_table' = res.table
           /\ pc_v1' = res1.pc
           /\ panic_msg_v1' = res1.msg
           /\ out_file_v1' = res1.file
           /\ perf_data_stack' = res1.stack
           /\ loop_profs' = res1.profs
  /\ UNCHANGED <<PROFILE_OUTPUT, program_invocation_short_name, perf_counter,
                 hist, calls, calc_data, calc_out, calc_hist, syscalls, tokens>>

Next_both ==
  \/ init_both
  \/ \E addr \in Addrs : enter_both(addr)
  \/ exit_both
  \/ cleanup_both

Spec_both == Init /\ [][Next_both]_vars

(***************************************************************************)
(* open_output_file in isolation: the name of the output file for every    *)
(* setting of PROFILE_OUTPUT and every program name of the bounded sets.   *)
(***************************************************************************)
InitOpen ==
  /\ pc = "open"
  /\ perf_state = "closed"
  /\ perf_counter = ZeroCounter
  /\ loop_data_table = EmptyTable
  /\ out_file = NoOutFile
  /\ panic_msg = ""
  /\ hist = NoHist
  /\ calls = 0
  /\ calc_data = NoLoopData
  /\ calc_out = UninitProfData
  /\ calc_hist = << >>
  /\ syscalls = << >>
  /\ tokens = << >>
  /\ pc_v1 = "start"
  /\ perf_data_stack = << >>
  /\ loop_profs = EmptyTable
  /\ out_file_v1 = NoOutFile
  /\ panic_msg_v1 = ""
  /\ PROFILE_OUTPUT \in EnvSettings
  /\ program_invocation_short_name \in ProgramNames
  /\ output_file_name = NotOpened

\* open_output_file: the name, open(), then the relocation is written; the
\* descriptor is returned and left open.
open_output_file ==
  /\ pc = "open"
  /\ \E opened \in BOOLEAN :
       \E fault \in WriteFaults(<< << get_relocation >> >>) :
       LET res == WriteOutputFile(out_file, output_file_name, PROFILE_OUTPUT,
                                  program_invocation_short_name, opened,
                                  << << get_relocation >> >>,
                                  fault[1], fault[2])
       IN  /\ pc' = IF res.pc = "exited" THEN "opened" ELSE res.pc
           /\ panic_msg' = res.msg
           /\ out_file' = res.file
           /\ output_file_name' = res.path
           /\ syscalls' = syscalls \o
                SelectSeq(res.log, LAMBDA c : c # "close_output")
  /\ UNCHANGED <<PROFILE_OUTPUT, program_invocation_short_name, perf_state,
                 perf_counter, loop_data_table, hist, calls, calc_data,
                 calc_out, calc_hist, tokens, vars_v1>>

Next_open == open_output_file

Spec_open == InitOpen /\ [][Next_open]_vars

(***************************************************************************)
(* Properties.                                                             *)
(***************************************************************************)
\* The invocation stack of call-site a (empty while a is not registered).
StackOf(table, a) == IF Found(table, a) THEN table[a].perf_data_stack ELSE << >>

\* combine applied from the left to the samples of the completed
\* invocations, the first sample taken as it is.
RECURSIVE FoldCombine(_, _)
FoldCombine(done, n) ==
  IF n = 1 THEN fill_prof_data(done[1].last, done[1].cur)
  ELSE add_prof_data(FoldCombine(done, n - 1),
                     fill_prof_data(done[n].last, done[n].cur))

\* The samples of done in the opposite order.
RECURSIVE Reversed(_)
Reversed(done) ==
  IF Len(done) = 0 THEN << >>
  ELSE << done[Len(done)] >> \o Reversed(SubSeq(done, 1, Len(done) - 1))

\* The read MPKI of the samples of done.
ReadMpkis(done) ==
  [i \in 1..Len(done) |-> fill_prof_data(done[i].last, done[i].cur).read_mpki]

\* C1: while the single call-site program runs, the call-site's stack
\* length is the number of its entries minus the number of its exits (so
\* it is zero after every well-nested sequence), and its aggregate is
\* present exactly when an invocation completed and then equals the left
\* fold of combine over the samples in exit-completion order, the first
\* sample stored as it is: samples of 10, 20 and 30 read MPKI completed in
\* this order give 22.5 (not 17.5 as in the opposite order, nor their mean
\* 20).
C1_AggregateIsFoldInCompletionOrder ==
  pc = "running" =>
    \A a \in Addrs :
      LET done == hist[a].samples IN
      /\ Len(StackOf(loop_data_table, a)) = hist[a].entered - Len(done)
      /\ Found(loop_data_table, a) <=> hist[a].entered > 0
      /\ Found(loop_data_table, a) =>
           /\ loop_data_table[a].has_prof_data <=> Len(done) > 0
           /\ Len(done) > 0 =>
                loop_data_table[a].prof_data = FoldCombine(done, Len(done))
           /\ (Len(done) = 3 /\ ReadMpkis(done) = << D(10), D(20), D(30) >>) =>
                loop_data_table[a].prof_data.read_mpki = << "fin", << 45 >>, -1 >>

\* C1 witness: the call-site completed three invocations nested in one
\* another, its stack is empty again, the samples are 10, 20 and 30 read
\* MPKI in completion order, and the aggregate, 22.5, is neither the fold
\* of the samples in the opposite order nor the fold of the first two.
C1_Witness ==
  /\ pc = "running"
  /\ LET done == hist[FoldSite].samples IN
       /\ hist[FoldSite].entered = 3
       /\ hist[FoldSite].peak = 3
       /\ Len(done) = 3
       /\ Len(loop_data_table[FoldSite].perf_data_stack) = 0
       /\ ReadMpkis(done) = << D(10), D(20), D(30) >>
       /\ loop_data_table[FoldSite].prof_data.read_mpki = << "fin", << 45 >>, -1 >>
       /\ loop_data_table[FoldSite].prof_data # FoldCombine(Reversed(done), 3)
       /\ loop_data_table[FoldSite].prof_data # FoldCombine(done, 2)

\* The step is the destructor.
IsTeardown == pc = "running" /\ perf_state = "enabled" /\ perf_state' = "closed"

\* Some call-site has an entry that no exit matched.
OpenInvocation ==
  \E a \in DOMAIN loop_data_table :
     Len(loop_data_table[a].perf_data_stack) > 0

\* The call-site keys of the records in the output file, whose layout is
\* the relocation followed by records of three fields (key, read MPKI,
\* write MPKI).
FileKeys(file) ==
  { file.data[i] : i \in { j \in 1..Len(file.data) : j % 3 = 2 } }

\* The output file holds a complete record for every call-site of table.
Serialized(file, table) ==
  /\ file.exists
  /\ Len(file.data) = 1 + 3 * Cardinality(DOMAIN table)
  /\ FileKeys(file) = DOMAIN table

\* C2: a teardown that begins while some invocation stack is not empty
\* aborts, and the registry is not serialized to the output.
C2_TeardownWithOpenInvocationIsFatal ==
  [][(IsTeardown /\ OpenInvocation)
       => (pc' = "aborted" /\ ~Serialized(out_file', loop_data_table))]_vars

\* C3: an entry appends the snapshot it read to the stack of its call-site,
\* and an exit removes exactly the last (most recently pushed) snapshot of
\* its call-site and updates the aggregate once, from that snapshot and the
\* snapshot it read.
C3_ExitPopsMostRecentSnapshot ==
  [][\A a \in Addrs :
       /\ (__loop_profile_func_enter(a) /\ pc' = "running") =>
            /\ Found(loop_data_table', a)
            /\ loop_data_table'[a].perf_data_stack =
                 Append(StackOf(loop_data_table, a), perf_counter')
       /\ (__loop_profile_func_exit(a) /\ pc' = "running") =>
            LET stack  == StackOf(loop_data_table, a)
                n      == Len(stack)
                sample == fill_prof_data(stack[n], perf_counter')
            IN  /\ n >= 1
                /\ Len(loop_data_table'[a].perf_data_stack) = n - 1
                /\ \A i \in 1..(n - 1) :
                     loop_data_table'[a].perf_data_stack[i] = stack[i]
                /\ loop_data_table'[a].has_prof_data
                /\ loop_data_table'[a].prof_data =
                     IF loop_data_table[a].has_prof_data
                     THEN add_prof_data(loop_data_table[a].prof_data, sample)
                     ELSE sample
                /\ Len(hist'[a].samples) = Len(hist[a].samples) + 1
     ]_vars

\* C3 witness: enter, enter, exit, exit on one call-site (depths 1, 2, 1,
\* 0): the inner invocation completed first and on the snapshot pushed
\* last, the outer one second and on the snapshot pushed first.
C3_Witness ==
  /\ pc = "running"
  /\ \E a \in Addrs :
       /\ hist[a].entered = 2
       /\ hist[a].peak = 2
       /\ Len(hist[a].samples) = 2
       /\ Len(loop_data_table[a].perf_data_stack) = 0
       /\ U64Value(hist[a].samples[2].last[1])
            < U64Value(hist[a].samples[1].last[1])
       /\ loop_data_table[a].has_prof_data

\* C4: an entry or an exit on call-site a changes nothing of any other
\* call-site: registered call-sites keep their stack, aggregate and flag,
\* and unregistered ones stay unregistered.
C4_OtherCallSitesUnchanged ==
  [][\A a \in Addrs :
       (__loop_profile_func_enter(a) \/ __loop_profile_func_exit(a)) =>
         \A b \in Addrs \ {a} :
           /\ Found(loop_data_table', b) <=> Found(loop_data_table, b)
           /\ Found(loop_data_table, b) =>
                loop_data_table'[b] = loop_data_table[b]
           /\ hist'[b] = hist[b]
     ]_vars

\* C4 witness: A enter, B enter, B exit, A exit with the read-miss counter
\* advancing at every call; each aggregate is the sample of the call-site's
\* own entry and exit snapshots, and the two differ.
C4_Witness ==
  /\ pc = "running"
  /\ \E a, b \in Addrs :
       /\ a # b
       /\ Len(hist[a].samples) = 1 /\ Len(hist[b].samples) = 1
       /\ Len(loop_data_table[a].perf_data_stack) = 0
       /\ Len(loop_data_table[b].perf_data_stack) = 0
       /\ U64Value(hist[a].samples[1].last[2])
            < U64Value(hist[b].samples[1].last[2])
       /\ U64Value(hist[b].samples[1].last[2])
            < U64Value(hist[b].samples[1].cur[2])
       /\ U64Value(hist[b].samples[1].cur[2])
            < U64Value(hist[a].samples[1].cur[2])
       /\ loop_data_table[a].prof_data =
            fill_prof_data(hist[a].samples[1].last, hist[a].samples[1].cur)
       /\ loop_data_table[b].prof_data =
            fill_prof_data(hist[b].samples[1].last, hist[b].samples[1].cur)
       /\ loop_data_table[a].prof_data # loop_data_table[b].prof_data

\* C5: an exit on a registered call-site whose stack is empty aborts the
\* process and changes no call-site's state.
C5_ExitOnEmptyStackAborts ==
  [][\A a \in Addrs :
       (/\ __loop_profile_func_exit(a)
        /\ Found(loop_data_table, a)
        /\ Len(loop_data_table[a].perf_data_stack) = 0)
       => /\ pc' = "aborted"
          /\ loop_data_table' = loop_data_table
          /\ hist' = hist
     ]_vars

\* C5 witness: the process aborted on the stack underflow of a call-site
\* that had completed an invocation before.
C5_Witness ==
  /\ pc = "aborted"
  /\ panic_msg = "Performance data stack is empty!"
  /\ \E a \in DOMAIN loop_data_table :
       /\ Len(loop_data_table[a].perf_data_stack) = 0
       /\ loop_data_table[a].has_prof_data
       /\ hist[a].entered = Len(hist[a].samples)

\* C6: an exit whose token is not a key of the table aborts the process:
\* no entry is created and no call-site's state changes.
C6_ExitOnUnknownTokenAborts ==
  [][\A a \in Addrs :
       (__loop_profile_func_exit(a) /\ ~Found(loop_data_table, a))
       => /\ pc' = "aborted"
          /\ DOMAIN loop_data_table' = DOMAIN loop_data_table
          /\ loop_data_table' = loop_data_table
          /\ hist' = hist
     ]_vars

\* C6 witness: the process aborted on an unknown token while another
\* call-site was registered.
C6_Witness ==
  /\ pc = "aborted"
  /\ panic_msg = "Loop data not found!"
  /\ DOMAIN loop_data_table # {}
  /\ DOMAIN loop_data_table # Addrs

\* The keys of the complete records (key and both MPKI fields) in the file.
RecordKeys(file) ==
  { file.data[i] : i \in { j \in 1..Len(file.data) :
                              j % 3 = 2 /\ j + 2 <= Len(file.data) } }

\* C7: the destructor emits no record for a call-site whose aggregate is
\* absent, that is, no record whose MPKI fields were never assigned (the
\* code defines no sentinel value for such a record).
C7_NoRecordWithoutAggregate ==
  [][IsTeardown =>
       \A a \in DOMAIN loop_data_table :
          ~loop_data_table[a].has_prof_data => a \notin RecordKeys(out_file')
    ]_vars

\* a <= b
BLeq(a, b) == ~BLess(b, a)

\* The exponent of the unit in the last place of the finite double r: the
\* weight of bit 0 of its 53-bit significand, 2^MinExp for zero and the
\* subnormals.
UlpExp(r) ==
  IF Len(r[2]) = 0 THEN MinExp
  ELSE LET f == r[3] - (MantBits - BBits(r[2]))
       IN  IF f > MinExp THEN f ELSE MinExp

\* r is a finite double: its significand fits MantBits bits and its value
\* lies on the grid of the doubles.
IsDouble(r) ==
  /\ IsFinite(r)
  /\ BBits(r[2]) <= MantBits
  /\ Len(r[2]) > 0 => (r[3] >= MinExp /\ BBits(r[2]) + r[3] <= MaxExp)

\* The real number n * 2^e / d, 0 < d <= 2^15, is far above the finite
\* double r and above 2^15 units in the last place of r: it is at least
\* 2^(BBits(n) + e - 16), and they are below 2^(BBits(r[2]) + r[3]) and
\* 2^(UlpExp(r) + 15) (r = 0 has no bits, only the unit 2^MinExp).
FarAbove(r, n, e) ==
  LET top == IF Len(r[2]) > 0 /\ BBits(r[2]) + r[3] > UlpExp(r)
             THEN BBits(r[2]) + r[3]
             ELSE UlpExp(r)
  IN  Len(n) > 0 /\ BBits(n) + e - 16 > top + 32

\* r is a double nearest to the real number v = n * 2^e / d, where n is a
\* natural number of any size and d a small one, 0 < d <= 2^15: v is not
\* above the middle of r and the next double, and not below the middle of
\* r and the double before it (which is twice as near when r is a power of
\* two).  The three numbers are compared as integers, after multiplying by
\* d and by a common power of two.
IsNearest(r, n, d, e) ==
  /\ IsDouble(r)
  /\ ~FarAbove(r, n, e)
  /\ IF Len(n) = 0 THEN Len(r[2]) = 0
     ELSE LET u     == UlpExp(r)
              below == IF r[2] = << 1 >> /\ u > MinExp THEN u - 2 ELSE u - 1
              low   == IF e < r[3] THEN e ELSE r[3]
              g     == IF low < u - 2 THEN low ELSE u - 2
              v     == BShl(n, e - g)
              rd    == BShl(BMulSmallFrom(r[2], d, 1, 0), r[3] - g)
          IN  /\ BLeq(v, BAdd(rd, BShl(<< d >>, u - 1 - g)))
              /\ BLeq(rd, BAdd(v, BShl(<< d >>, below - g)))

\* The double r is within k units in its last place of the real number
\* n * 2^e / d (n, d as for IsNearest, k * d <= 2^15).
WithinUlps(r, n, d, e, k) ==
  /\ IsDouble(r)
  /\ ~FarAbove(r, n, e)
  /\ LET u   == UlpExp(r)
         low == IF e < r[3] THEN e ELSE r[3]
         g   == IF low < u THEN low ELSE u
         v   == BShl(n, e - g)
         rd  == BShl(BMulSmallFrom(r[2], d, 1, 0), r[3] - g)
         tol == BShl(<< k * d >>, u - g)
     IN  /\ BLeq(v, BAdd(rd, tol))
         /\ BLeq(rd, BAdd(v, tol))

\* r = (x + y) / 2 as far as a double can hold it: for finite x and y, r is
\* a double nearest to the exact half of the exact sum (and is that half
\* when it is a double); the sum with a NaN is NaN, and otherwise the sum
\* with +infinity is +infinity.
IsHalfSum(r, x, y) ==
  IF IsFinite(x) /\ IsFinite(y)
  THEN LET e == IF x[3] < y[3] THEN x[3] ELSE y[3]
       IN  IsNearest(r, BAdd(BShl(x[2], x[3] - e), BShl(y[2], y[3] - e)),
                     1, e - 1)
  ELSE IF IsNaN(x) \/ IsNaN(y) THEN IsNaN(r)
  ELSE IsInf(r)

\* The sequence of counter increments of the invocations folded so far.
CalcStepsDone == [i \in 1..Len(calc_hist) |-> calc_hist[i].step]

\* C8: an exit that finds an aggregate replaces it by the component-wise
\* half-sum of the aggregate and the new sample, computed in double
\* arithmetic (the sum is rounded to the nearest double, halving is
\* exact), and not by a cumulative mean: the samples (10,10), (20,20),
\* (30,30) fold to (15,15) and then to (22.5,22.5), not to (20,20); a sum
\* that no double holds is rounded, as in the fold of the write MPKI
\* 10/3, 30, 0 to 16.666666666666668 and then to 8.333333333333334.
C8_CombineIsHalfSum ==
  [][/\ (CalcExit /\ calc_data.has_prof_data) =>
          /\ IsHalfSum(calc_data'.prof_data.read_mpki,
                       calc_data.prof_data.read_mpki, calc_out'.read_mpki)
          /\ IsHalfSum(calc_data'.prof_data.write_mpki,
                       calc_data.prof_data.write_mpki, calc_out'.write_mpki)
     /\ (CalcExit /\ ~calc_data.has_prof_data) =>
          calc_data'.prof_data = calc_out'
     /\ CalcStepsDone' = << <<1000, 10, 10>>, <<1000, 20, 20>> >> =>
          calc_data'.prof_data = [read_mpki |-> D(15), write_mpki |-> D(15)]
     /\ CalcStepsDone' =
          << <<1000, 10, 10>>, <<1000, 20, 20>>, <<1000, 30, 30>> >> =>
          /\ calc_data'.prof_data =
               [read_mpki  |-> << "fin", << 45 >>, -1 >>,
                write_mpki |-> << "fin", << 45 >>, -1 >>]
          /\ calc_data'.prof_data # [read_mpki |-> D(20), write_mpki |-> D(20)]
     /\ CalcStepsDone' = << <<3000, 0, 10>>, <<1000, 30, 30>> >> =>
          calc_data'.prof_data =
            [read_mpki  |-> D(15),
             write_mpki |-> << "fin", << 43691, 43690, 43690, 16 >>, -48 >>]
     /\ CalcStepsDone' =
          << <<3000, 0, 10>>, <<1000, 30, 30>>, <<2000, 10, 0>> >> =>
          calc_data'.prof_data =
            [read_mpki  |-> D(10),
             write_mpki |-> << "fin", << 43691, 43690, 43690, 16 >>, -49 >>]
    ]_vars

\* C8 witness: the samples (10,10), (20,20), (30,30) were folded in that
\* order and the aggregate is (22.5,22.5).
C8_Witness ==
  /\ CalcStepsDone = << <<1000, 10, 10>>, <<1000, 20, 20>>, <<1000, 30, 30>> >>
  /\ calc_out = [read_mpki |-> D(30), write_mpki |-> D(30)]
  /\ calc_data.prof_data = [read_mpki  |-> << "fin", << 45 >>, -1 >>,
                            write_mpki |-> << "fin", << 45 >>, -1 >>]

\* r is the MPKI of an interval of insts instructions with the given
\* number of misses (small naturals, insts # 0): the double computed from
\* the two counts is within two units in the last place of the number
\* 1000 * misses / insts, one for each of the two divisions that round,
\* and it is a double nearest to that number when insts is a multiple of
\* 1000, the division by 1000.0 being exact then.
IsMpkiOf(r, misses, insts) ==
  LET n == BTrim(<< (1000 * misses) % Limb, (1000 * misses) \div Limb >>)
  IN  /\ WithinUlps(r, n, insts, 0, 2)
      /\ insts % 1000 = 0 => IsNearest(r, n, insts, 0)

\* C9: for snapshots last and cur = last + step modulo 2^64 (so that step
\* is the unsigned wraparound difference of every counter), with a nonzero
\* instruction step, the sample is read_mpki = 1000 * read step / insts
\* step and write_mpki = 1000 * write step / insts step, as a double
\* holds them; equal miss counts give 0.
C9_MpkiOfWraparoundDeltas ==
  \A i \in 1..Len(calc_hist) :
    LET h == calc_hist[i]
        sample == fill_prof_data(h.last, h.cur)
    IN  /\ i = Len(calc_hist) => calc_out = sample
        /\ h.step[1] # 0 =>
             /\ IsMpkiOf(sample.read_mpki, h.step[2], h.step[1])
             /\ IsMpkiOf(sample.write_mpki, h.step[3], h.step[1])
             /\ h.cur[2] = h.last[2] => sample.read_mpki = D(0)
             /\ h.cur[3] = h.last[3] => sample.write_mpki = D(0)
        /\ h.step = <<1000, 20, 20>> =>
             sample = [read_mpki |-> D(20), write_mpki |-> D(20)]
        /\ h.step = <<7, 5, 0>> =>
             sample = [read_mpki  |-> << "fin", << 37449, 18724, 38034, 5 >>, -41 >>,
                       write_mpki |-> D(0)]

\* C9 witness: all three counters wrapped around 2^64 between the two
\* snapshots and the sample is (20, 20).
C9_Witness ==
  /\ Len(calc_hist) > 0
  /\ LET h == calc_hist[Len(calc_hist)] IN
       /\ h.last[1][4] = Limb - 1 /\ h.cur[1][4] = 0
       /\ h.last[2][4] = Limb - 1 /\ h.cur[2][4] = 0
       /\ h.last[3][4] = Limb - 1 /\ h.cur[3][4] = 0
       /\ h.step = <<1000, 20, 20>>
  /\ calc_out = [read_mpki |-> D(20), write_mpki |-> D(20)]

\* The exit of call-site a read the instruction count that the snapshot on
\* top of a's stack holds.
ZeroDeltaExit(a) ==
  /\ __loop_profile_func_exit(a)
  /\ ~(pc' = "aborted" /\ panic_msg' = "Failed to read from fd")
  /\ Found(loop_data_table, a)
  /\ Len(loop_data_table[a].perf_data_stack) > 0
  /\ perf_counter'[1] =
       loop_data_table[a].perf_data_stack[
         Len(loop_data_table[a].perf_data_stack)][1]

\* Some call-site's aggregate is infinite or NaN.
SomeDegenerateAggregate ==
  \E a \in DOMAIN loop_data_table :
     /\ loop_data_table[a].has_prof_data
     /\ \/ ~IsFinite(loop_data_table[a].prof_data.read_mpki)
        \/ ~IsFinite(loop_data_table[a].prof_data.write_mpki)

\* C10: an exit with instruction delta zero does not abort: the process
\* keeps running, the stack of the call-site is popped and every other
\* call-site is unchanged; and a destructor that completes after such an
\* exit has written a record for every call-site of the table.
C10_ZeroDeltaExitCompletes ==
  [][/\ \A a \in Addrs :
          ZeroDeltaExit(a) =>
            /\ pc' = "running"
            /\ panic_msg' = panic_msg
            /\ Len(loop_data_table'[a].perf_data_stack) =
                 Len(loop_data_table[a].perf_data_stack) - 1
            /\ loop_data_table'[a].has_prof_data
            /\ \A b \in Addrs \ {a} :
                 /\ Found(loop_data_table', b) <=> Found(loop_data_table, b)
                 /\ Found(loop_data_table, b) =>
                      loop_data_table'[b] = loop_data_table[b]
     /\ (IsTeardown /\ SomeDegenerateAggregate /\ pc' = "exited") =>
          /\ Serialized(out_file', loop_data_table)
          /\ \A i \in 1..Len(out_file'.data) :
               (i % 3 = 2 /\ out_file'.data[i] \notin UninitKeys(loop_data_table))
                 => /\ out_file'.data[i + 1] =
                         loop_data_table[out_file'.data[i]].prof_data.read_mpki
                    /\ out_file'.data[i + 2] =
                         loop_data_table[out_file'.data[i]].prof_data.write_mpki
    ]_vars

\* C10 witness: the process exited normally and the output holds the
\* records of two call-sites, one with the aggregate (+infinity, NaN) of a
\* zero-delta invocation and one of a call-site entered after it.
C10_Witness ==
  /\ pc = "exited"
  /\ Len(out_file.data) = 7
  /\ \E i, j \in {2, 5} :
       /\ i # j
       /\ hist[out_file.data[i]].samples # << >>
       /\ out_file.data[i + 1] = Inf /\ out_file.data[i + 2] = NaN
       /\ hist[out_file.data[j]].entered = 1
       /\ hist[out_file.data[j]].open # << >>
       /\ hist[out_file.data[i]].samples[1].t_out
            < hist[out_file.data[j]].open[1].t

\* C11: the degenerate sample of a zero-instruction-delta invocation stays
\* isolated: once a later invocation of the same call-site with a nonzero
\* instruction delta has completed, the aggregate of the call-site is
\* finite.
C11_DegenerateSampleIsIsolated ==
  pc = "running" =>
    \A a \in DOMAIN loop_data_table :
      LET done == hist[a].samples IN
      (/\ Len(done) > 0
       /\ done[Len(done)].cur[1] # done[Len(done)].last[1])
      => /\ IsFinite(loop_data_table[a].prof_data.read_mpki)
         /\ IsFinite(loop_data_table[a].prof_data.write_mpki)

\* The destructor ran to its end.
NormalTeardown == IsTeardown /\ pc' = "exited"

\* The number of complete records in the output file.
RecordCount(file) == (Len(file.data) - 1) \div 3

\* C12: after a normal teardown the output file is the relocation offset,
\* written once and first, followed by exactly one record (key, read MPKI,
\* write MPKI) per registry entry with no key repeated, and every record
\* decodes to the aggregate of the registry entry of its key.
C12_OutputDecodesToRegistry ==
  [][NormalTeardown =>
       /\ out_file'.exists
       /\ Len(out_file'.data) = 1 + 3 * Cardinality(DOMAIN loop_data_table)
       /\ out_file'.data[1] = get_relocation
       /\ RecordKeys(out_file') = DOMAIN loop_data_table
       /\ \A i \in 1..RecordCount(out_file') :
             LET key == out_file'.data[3 * i - 1] IN
             /\ loop_data_table[key].has_prof_data
             /\ out_file'.data[3 * i] = loop_data_table[key].prof_data.read_mpki
             /\ out_file'.data[3 * i + 1] =
                  loop_data_table[key].prof_data.write_mpki
    ]_vars

\* C13: once a fatal error has occurred (counter open failure, short read,
\* unknown token, stack underflow, output open or write failure) the
\* process has terminated without leaving an output file behind, neither a
\* partial nor a complete one.
C13_NoOutputAfterFatalError ==
  pc = "aborted" => out_file = NoOutFile

\* The positions in the log of system calls of the calls named in names.
Positions(log, names) == { i \in 1..Len(log) : log[i] \in names }

\* C14: in a run that terminated normally the counter group was enabled
\* exactly once and disabled exactly once, the enable before and the
\* disable after every read of the counter group (every snapshot of an
\* entry or an exit), and the output file was opened, written and closed
\* only after the counters had been disabled and all their descriptors
\* closed.
C14_CountersEnabledOnceAroundAllReads ==
  pc = "exited" =>
    LET enable  == Positions(syscalls, {"ioctl_enable"})
        disable == Positions(syscalls, {"ioctl_disable"})
        closes  == Positions(syscalls, {"close_perf"})
        reads   == Positions(syscalls, {"read", "read_failed"})
        writer  == Positions(syscalls, {"open_output", "open_output_failed",
                                        "write", "write_failed",
                                        "close_output"})
    IN  /\ Cardinality(enable) = 1
        /\ Cardinality(disable) = 1
        /\ Cardinality(closes) = LEN_PERF_EVENTS
        /\ \A e \in enable, d \in disable :
              /\ e < d
              /\ \A r \in reads : e < r /\ r < d
        /\ \A d \in disable, c \in closes, w \in writer : d < c /\ c < w
        /\ writer # {}

C14_Witness ==
  /\ pc = "exited"
  /\ \E a \in Addrs : Len(hist[a].samples) > 0
  /\ Cardinality(Positions(syscalls, {"read"})) >= 2
  /\ Cardinality(Positions(syscalls, {"write"})) >= 3

\* The call made in this step read the counter group, and the read was
\* short or failed (failed), or delivered the counters (succeeded).
ReadFailed ==
  /\ Len(syscalls') = Len(syscalls) + 1
  /\ syscalls'[Len(syscalls')] = "read_failed"

ReadSucceeded ==
  /\ Len(syscalls') = Len(syscalls) + 1
  /\ syscalls'[Len(syscalls')] = "read"

\* The aggregate of call-site a, absent or present with its value.
AggregateOf(table, a) ==
  IF Found(table, a) /\ table[a].has_prof_data
  THEN [present |-> TRUE, value |-> table[a].prof_data]
  ELSE [present |-> FALSE, value |-> UninitProfData]

\* C15: when the read of the counter group made by an entry or an exit is
\* short or fails, the process aborts and the aggregate of every call-site
\* is as before: none is created, none is updated.
C15_FailedReadAbortsWithoutUpdate ==
  [][ReadFailed =>
       /\ pc' = "aborted"
       /\ \A a \in Addrs :
             AggregateOf(loop_data_table', a) = AggregateOf(loop_data_table, a)
    ]_vars

C15_Witness ==
  /\ pc = "aborted"
  /\ Len(syscalls) > 0
  /\ syscalls[Len(syscalls)] = "read_failed"
  /\ \E a, b \in DOMAIN loop_data_table :
        /\ loop_data_table[a].has_prof_data
        /\ Len(loop_data_table[a].perf_data_stack) > 0
        /\ ~loop_data_table[b].has_prof_data

\* C16: between the constructor and the destructor the set of registered
\* keys never shrinks and grows only by the key of an entry; the first
\* entry of a key creates its loop data with no aggregate and a stack that
\* holds only the slot of this entry; a later entry of the key uses the
\* loop data already there: its aggregate is kept and its stack grows by
\* one slot.
C16_OneLoopDataPerKey ==
  [][(pc = "running" /\ ~IsTeardown) =>
       /\ DOMAIN loop_data_table \subseteq DOMAIN loop_data_table'
       /\ \A a \in Addrs :
            __loop_profile_func_enter(a) =>
              /\ DOMAIN loop_data_table' = DOMAIN loop_data_table \cup {a}
              /\ IF Found(loop_data_table, a)
                 THEN /\ AggregateOf(loop_data_table', a)
                           = AggregateOf(loop_data_table, a)
                      /\ Len(loop_data_table'[a].perf_data_stack)
                           = Len(loop_data_table[a].perf_data_stack) + 1
                      /\ SubSeq(loop_data_table'[a].perf_data_stack, 1,
                                Len(loop_data_table[a].perf_data_stack))
                           = loop_data_table[a].perf_data_stack
                 ELSE /\ ~loop_data_table'[a].has_prof_data
                      /\ loop_data_table'[a].prof_data = UninitProfData
                      /\ Len(loop_data_table'[a].perf_data_stack) = 1
       /\ \A a \in Addrs :
            __loop_profile_func_exit(a) =>
              DOMAIN loop_data_table' = DOMAIN loop_data_table
    ]_vars

C16_Witness ==
  /\ pc = "running"
  /\ DOMAIN loop_data_table = Addrs
  /\ \E a \in Addrs :
        /\ hist[a].entered >= 2
        /\ loop_data_table[a].has_prof_data
        /\ Len(loop_data_table[a].perf_data_stack) = 1

\* The instruction delta of a completed invocation.
InstDelta(sample) == U64Value(Sub64(sample.cur[1], sample.last[1]))

\* Every completed invocation found on the stack the snapshot its entry
\* had read, and the instruction delta of a completed invocation is at
\* least that of every completed invocation nested inside it (entered
\* later and exited earlier), of the same or of another call-site.
NestedDeltas ==
  /\ \A a \in Addrs : \A i \in 1..Len(hist[a].samples) :
        hist[a].samples[i].last = hist[a].samples[i].pushed
  /\ \A a, b \in Addrs :
       \A i \in 1..Len(hist[a].samples), j \in 1..Len(hist[b].samples) :
          LET outer == hist[a].samples[i]
              inner == hist[b].samples[j]
          IN  (outer.t_in < inner.t_in /\ inner.t_out < outer.t_out)
                => InstDelta(outer) >= InstDelta(inner)

\* C17: no entry and no exit modifies a snapshot that stays on a stack: the
\* stack of every call-site changes only at its end, by one slot; so with
\* the non-decreasing counters of the run, an outer invocation's
\* instruction delta is at least that of every invocation nested in it.
C17_OpenSnapshotsAreFrozen ==
  [][(pc = "running" /\ ~IsTeardown) =>
       /\ \A b \in DOMAIN loop_data_table :
            LET old == loop_data_table[b].perf_data_stack
                new == loop_data_table'[b].perf_data_stack
            IN  /\ Len(new) \in {Len(old) - 1, Len(old), Len(old) + 1}
                /\ \A i \in 1..Len(old) : i <= Len(new) => new[i] = old[i]
       /\ NestedDeltas'
    ]_vars

C17_Witness ==
  /\ pc = "running"
  /\ \E a, b \in Addrs :
       \E i \in 1..Len(hist[a].samples), j \in 1..Len(hist[b].samples) :
          LET outer == hist[a].samples[i]
              inner == hist[b].samples[j]
          IN  /\ outer.t_in < inner.t_in
              /\ inner.t_out < outer.t_out
              /\ InstDelta(outer) > InstDelta(inner)
              /\ InstDelta(inner) > 0

\* C18: an exit aborts exactly when its read of the counter group is short
\* or fails, or its token is not registered, or the stack of its own
\* call-site is empty; open invocations of other call-sites never make it
\* abort, and an exit that does not abort combines its sample into the
\* aggregate of its call-site.
C18_ExitAbortsOnlyOnOwnCallSite ==
  [][\A a \in Addrs :
       __loop_profile_func_exit(a) =>
         /\ pc' = "aborted"
              <=> (\/ ReadFailed
                   \/ ~Found(loop_data_table, a)
                   \/ Len(loop_data_table[a].perf_data_stack) = 0)
         /\ pc' # "aborted" =>
              LET stack  == loop_data_table[a].perf_data_stack
                  sample == fill_prof_data(stack[Len(stack)], perf_counter')
              IN  /\ pc' = "running"
                  /\ loop_data_table'[a].has_prof_data
                  /\ loop_data_table'[a].prof_data =
                       IF loop_data_table[a].has_prof_data
                       THEN add_prof_data(loop_data_table[a].prof_data, sample)
                       ELSE sample
    ]_vars

\* C18 as stated, with no word on the read: an exit aborts exactly when
\* its token is not registered or the stack of its own call-site is empty.
\* An exit of a registered token with an open invocation whose read of the
\* counter group fails aborts with "Failed to read from fd".
C18_ExitAbortsIffUnregisteredOrEmpty ==
  [][\A a \in Addrs :
       __loop_profile_func_exit(a) =>
         (pc' = "aborted"
            <=> (\/ ~Found(loop_data_table, a)
                 \/ Len(loop_data_table[a].perf_data_stack) = 0))
    ]_vars

\* An exit of call-site a was accepted while an invocation of another
\* call-site, entered after the one a's exit completed, was still open.
C18_Witness ==
  /\ pc = "running"
  /\ \E a, b \in Addrs :
       /\ a # b
       /\ AggregateOf(loop_data_table, a).present
       /\ \E i \in 1..Len(hist[a].samples), k \in 1..Len(hist[b].open) :
            /\ hist[a].samples[i].t_in < hist[b].open[k].t
            /\ hist[b].open[k].t < hist[a].samples[i].t_out

\* C19: in the single-stack library a destructor that finds the global
\* stack not empty panics before the output file is opened or truncated,
\* so the run leaves no output; and an exit whose read succeeded on an
\* empty global stack panics and leaves the hash table unchanged.
C19_SingleStackUnmatchedIsFatal ==
  [][/\ (cleanup_all_v1 /\ Len(perf_data_stack) > 0) =>
          /\ pc_v1' = "aborted"
          /\ panic_msg_v1' = "Performance data stack is not empty!"
          /\ out_file_v1' = NoOutFile
          /\ Positions(syscalls', {"open_output", "open_output_failed",
                                   "write", "write_failed"}) = {}
     /\ (__loop_profile_func_exit_v1 /\ ReadSucceeded
           /\ Len(perf_data_stack) = 0) =>
          /\ pc_v1' = "aborted"
          /\ panic_msg_v1' = "Performance data stack is empty!"
          /\ loop_profs' = loop_profs
    ]_vars

\* The destructor met an unmatched entry while the hash table held
\* profiling data to write.
C19_Witness ==
  /\ pc_v1 = "aborted"
  /\ panic_msg_v1 = "Performance data stack is not empty!"
  /\ Len(perf_data_stack) > 0
  /\ DOMAIN loop_profs # {}
  /\ perf_state = "closed"

\* The records of an output file, as a set.
Records(file) ==
  { << file.data[3 * i - 1], file.data[3 * i], file.data[3 * i + 1] >> :
      i \in 1..RecordCount(file) }

\* The (call-site, aggregate) pairs the two libraries hold.
Pairs(table) == { << a, table[a].prof_data >> : a \in DOMAIN table }

Pairs_v1(profs) == { << a, profs[a] >> : a \in DOMAIN profs }

\* The failures of system calls and of the output file's name, which are
\* not failures of nesting.
SyscallPanics ==
  { "", "Failed to open perf event", "Failed to read from fd",
    "Program name is too long.", "Failed to open the output file",
    "Failed to write to fd" }

\* C20: on a well-nested program whose exits pass the token of the
\* matching entry, run with the same counter readings, the per-call-site
\* engine and the single-stack library hold the same aggregates: none of
\* them panics on the nesting, whenever no loop is open they hold the same
\* set of (call-site, aggregate) pairs, and when both destructors finish
\* the two output files hold the same relocation and the same set of
\* records.
C20_SingleStackRefinesPerCallSite ==
  /\ panic_msg \in SyscallPanics
  /\ panic_msg_v1 \in SyscallPanics
  /\ (pc = "running" /\ pc_v1 = "running") =>
       /\ \A a \in Addrs :
            AggregateOf(loop_data_table, a) =
              IF Found(loop_profs, a)
              THEN [present |-> TRUE, value |-> loop_profs[a]]
              ELSE [present |-> FALSE, value |-> UninitProfData]
       /\ Len(tokens) = 0 => Pairs(loop_data_table) = Pairs_v1(loop_profs)
  /\ (pc = "exited" /\ pc_v1 = "exited") =>
       /\ Len(out_file.data) = Len(out_file_v1.data)
       /\ out_file.data[1] = out_file_v1.data[1]
       /\ Records(out_file) = Records(out_file_v1)

\* Both runs finished after two nested loops of different call-sites, and
\* the hash tables were written in different orders.
C20_Witness ==
  /\ pc = "exited"
  /\ pc_v1 = "exited"
  /\ RecordCount(out_file) = 2
  /\ out_file.data # out_file_v1.data

\* C21: after open_output_file, when PROFILE_OUTPUT is set the path passed
\* to open() is exactly its value; when it is not set the path is exactly
\* the program name followed by ".prof", or open() was not called and the
\* process panicked with "Program name is too long.": a truncated name is
\* never passed to open().
C21_ExactPathOrPanic ==
  pc # "open" =>
    IF PROFILE_OUTPUT.set
    THEN output_file_name = [called |-> TRUE, path |-> PROFILE_OUTPUT.value]
    ELSE \/ output_file_name =
              [called |-> TRUE,
               path |-> program_invocation_short_name \o Suffix]
         \/ /\ output_file_name = NotOpened
            /\ pc = "aborted"
            /\ panic_msg = "Program name is too long."

====
